---- MODULE Spec2Model ----
(***************************************************************************)
(* Model of gorss: the feed manager (feed/feed.go) that fetches the        *)
(* configured feeds in parallel, replaces the article store and mirrors it *)
(* to the cache file, together with its readers in the UI (ui/app.go); and *)
(* the streamed answers of the Ollama client (llm/ollama.go) as the Ask    *)
(* LLM view of the UI pulls them.                                          *)
(***************************************************************************)
EXTENDS Integers, Sequences, FiniteSets, Bags, TLC

(* ------------------------------ bounds --------------------------------- *)
MaxRefreshes == 1      \* RefreshFeeds calls made in one behaviour
MaxItems == 2          \* items of a non-empty feed
MaxCommands == 2       \* fetchFeeds commands in flight at one time
MaxConfigFeeds == 3    \* feeds the configuration view holds after an add
MaxChunks == 1         \* lines one streamed response holds before it ends
ChanCap == 1           \* cap(responseChannel): make(chan StreamingResponseMsg, 10),
                       \* scaled so that MaxChunks lines can fill the channel

(* ------------------------------ data ----------------------------------- *)
\* config.Feed: a name and a locator; an empty URL is the "All" pseudo feed
FeedA == [Name |-> "A", URL |-> "uA"]
FeedB == [Name |-> "B", URL |-> "uB"]
FeedAll == [Name |-> "All", URL |-> ""]

\* the feed lists config.LoadConfig can hand to fetchFeeds
Configs == { <<FeedAll, FeedA, FeedB>>, <<FeedB>>, <<FeedAll>> }

Gens == 1..MaxRefreshes

\* the fetchFeeds commands that can be running at one time
Commands == 1..MaxCommands

\* len(parsed.Items) of a fetched feed: an empty feed or a full one
ItemCounts == {0, MaxItems}

\* the callers of GetArticles: the UI goroutine (updateArticlesList)
Readers == {"ui"}

\* time.Time: the instant (wall clock) and whether the value carries a
\* monotonic clock reading, as every result of time.Now() does
Time(w, m) == [wall |-> w, mono |-> m]

\* item.PublishedParsed != nil: the items of feed B carry no publication date
Dated(name) == name # "B"

\* pubDate := time.Now(); if item.PublishedParsed != nil { pubDate = *item.PublishedParsed }
pubDate(name, i) == IF Dated(name) THEN Time(i, FALSE) ELSE Time(i, TRUE)

\* item.Content and item.Description of item i of a feed: the odd items carry
\* content, the items of feed A carry a description
ItemContent(name, i) == IF i % 2 = 1 THEN "content" ELSE ""
ItemDescription(name, i) == IF name = "A" THEN "description" ELSE ""

\* content := item.Content; if content == "" { content = item.Description }
Content_Item(c, d) == c
Content(c, d) == IF c = "" THEN d ELSE c

\* feed.Article: item i of feed name, published at time i; gen tells which
\* refresh fetched it (0: the image found in the cache at startup)
Article(name, i, g) ==
  [FeedName |-> name, Title |-> i, Published |-> pubDate(name, i),
   Description |-> ItemDescription(name, i),
   Content |-> Content(ItemContent(name, i), ItemDescription(name, i)), gen |-> g]
NoArticle ==
  [FeedName |-> "", Title |-> 0, Published |-> Time(0, FALSE),
   Description |-> "", Content |-> "", gen |-> 0]

\* backing arrays of the []Article slices of the program
NilArr == <<"nil", 0>>
LoadArr == <<"load", 0>>
RunArr(g) == <<"run", g>>
SnapArr(k) == <<"snap", k>>
CmdArr(c) == <<"cmd", c>>
ArrIds ==
  {NilArr, LoadArr} \cup {RunArr(g) : g \in Gens} \cup {SnapArr(k) : k \in Readers}
    \cup {CmdArr(c) : c \in Commands}

VARIABLES
  Feeds,        \* fm.Feeds
  Articles,     \* fm.Articles: the backing array the store slice points to
  heap,         \* contents of the backing arrays
  mu,           \* fm.mu: [writer : BOOLEAN, readers : set of holders]
  cacheFile,    \* the file at fm.cachePath: [exists, data]
  nStarted,     \* RefreshFeeds calls made so far; the current call's number
  pc,           \* position of the RefreshFeeds call
  task,         \* state of the fetch goroutine launched for each feed
  got,          \* what each fetch goroutine's fetchFeed returned
  articleCh,    \* buffered channel of article batches
  errorCh,      \* buffered channel of errors
  chClosed,     \* 0: open, 1: articleCh closed, 2: both closed
  errors,       \* the errors slice of the call
  ret,          \* return value of the call: <<>> is nil
  data,         \* bytes saveCache marshalled
  rdPc,         \* position of each GetArticles caller
  rdRes,        \* the slice GetArticles builds and returns
  rdLen,        \* len(fm.Articles) as read by make
  seen,         \* history: the store contents visible during a GetArticles call
  prevImage,    \* history: the cache image on disk when saveCache began
  lostStore,    \* history: the store's records when the process crashed
  recovered,    \* history: the process was restarted after a crash in saveCache
  sendOrder,    \* history: feed indexes in the order their batches were sent
  failOrder,    \* history: feed indexes in the order their errors were sent
  before,       \* history: the store's records when the call began
  saved,        \* history: saveCache was entered by the call
  loadErr,      \* what loadCache returned to NewFeedManager: "" is nil
  loaded,       \* history: loadCache has run in this process
  requested,    \* history: a refresh was requested in this process
  savedRecs,    \* history: the store's records saveCache marshalled last
  writeOk,      \* history: the last saveCache wrote its data completely
  Summaries,    \* fm.Summaries: a map from feed names to summaries
  summaryFile,  \* the file at fm.summaryPath: [exists, data]
  sumPc,        \* position of the SetSummary call
  sumArg,       \* feedName and articleCount of that call
  sumGot,       \* what the last GetSummary call returned: <<>> is not found
  Enabled,        \* m.ollamaConfig.Enabled
  liveResponseCh, \* m.liveResponseCh: the session whose channel it is, 0 is nil
  nSess,          \* prompts submitted so far
  prod,           \* position of the goroutine of each AskOllamaStreaming call
  nLines,         \* lines that goroutine has read from the response body
  buffer,         \* the text that goroutine holds in buffer
  scanErr,        \* the scanner of that goroutine holds a read error
  sending,        \* the chunk that goroutine is about to send: <<>> is none
  respCh,         \* responseChannel of each call: the chunks buffered in it
  respClosed,     \* close(responseChannel) has run
  drains,         \* the channels a drain goroutine is ranging over
  pulls,          \* the pull commands in flight: a bag of [ch, msg]
  askLLMResult,   \* m.askLLMResult
  errorMessage,   \* m.errorMessage as the Ask LLM handlers set it
  statusMessage,  \* m.statusMessage as the Ask LLM handlers set it
  currentView,    \* m.currentView: "feeds" or "ask"
  submitting,     \* m.askLLMView.submitting
  contentLines,   \* len(m.askLLMView.contentLines) > 0
  askRet,         \* what a call of AskOllama returned: <<>> before the call
  modelsRet,      \* what a call of GetAvailableModels returned, likewise
  loading,        \* m.loading
  cmd,            \* position of each fetchFeeds command Update has returned
  cmdData,        \* data of the saveCache call of each command
  mFeeds,         \* m.feeds: the names the feeds list shows
  feedsIndex,     \* m.feedsList.Index()
  currentFeed,    \* m.currentFeed
  articlesItems,  \* len(m.articlesList.Items())
  articlesIndex,  \* m.articlesList.Index()
  multiSelectMode,        \* m.multiSelectMode
  selectedArticleIndexes, \* the keys of m.selectedArticleIndexes
  panicked,       \* the process has ended in a runtime panic
  cvFeeds,        \* m.configView.feeds
  cursor,         \* m.configView.cursor
  mode,           \* m.configView.mode
  netCalls,       \* history: HTTP requests made for each session, 0 for AskOllama
  produced,       \* history: the chunks each producer has sent
  received        \* history: the chunks received from each channel

vars == <<Feeds, Articles, heap, mu, cacheFile, nStarted, pc, task, got,
          articleCh, errorCh, chClosed, errors, ret, data, rdPc, rdRes, rdLen,
          seen, prevImage, lostStore, recovered, sendOrder, failOrder, before, saved,
          loadErr, loaded, requested, savedRecs, writeOk,
          Summaries, summaryFile, sumPc, sumArg, sumGot,
          Enabled, liveResponseCh, nSess, prod, nLines, buffer, scanErr, sending, respCh,
          respClosed, drains,
          pulls, askLLMResult, errorMessage, statusMessage, currentView, submitting,
          contentLines, askRet, modelsRet, loading, cmd, cmdData, netCalls, produced, received,
          mFeeds, feedsIndex, currentFeed, articlesItems, articlesIndex,
          multiSelectMode, selectedArticleIndexes, panicked,
          cvFeeds, cursor, mode>>

feedVars == <<Feeds, Articles, heap, mu, cacheFile, nStarted, pc, task, got,
              articleCh, errorCh, chClosed, errors, ret, data, rdPc, rdRes, rdLen,
              seen, prevImage, lostStore, recovered, sendOrder, failOrder, before, saved,
              loadErr, loaded, requested, savedRecs, writeOk,
              Summaries, summaryFile, sumPc, sumArg, sumGot>>
llmVars == <<Enabled, liveResponseCh, nSess, prod, nLines, buffer, scanErr, sending, respCh,
          respClosed, drains,
             pulls, askLLMResult, errorMessage, statusMessage, currentView, submitting,
             contentLines, askRet, modelsRet, loading, cmd, cmdData, netCalls, produced, received>>

rdVars == <<rdPc, rdRes, rdLen, seen>>
selVars == <<mFeeds, feedsIndex, currentFeed, articlesItems, articlesIndex, multiSelectMode, selectedArticleIndexes, panicked>>
cfgVars == <<cvFeeds, cursor, mode>>
sumVars == <<Summaries, summaryFile, sumPc, sumArg, sumGot>>
hist == <<sendOrder, failOrder, before, saved, prevImage, lostStore, recovered>>

(* --------------------------- pure helpers ------------------------------ *)
Range(s) == {s[i] : i \in 1..Len(s)}

RECURSIVE Concat(_)
Concat(ss) == IF ss = <<>> THEN <<>> ELSE Head(ss) \o Concat(Tail(ss))

\* fetchFeed: one Article per parsed item, in the order of parsed.Items
fetchFeed(feed, n, g) == [i \in 1..n |-> Article(feed.Name, i, g)]

\* if feed.URL == "" { continue }: only a feed with a locator gets a goroutine
Launch_All(feed) == TRUE
Launch(feed) == feed.URL # ""

\* newArticles = append(newArticles, articles...)
AppendBatch_Replace(new, batch) == batch
AppendBatch_Prepend(new, batch) == batch \o new
AppendBatch(new, batch) == new \o batch

\* fmt.Errorf("failed to fetch %s: %w", feed.Name, err)
FetchError(feed) == [name |-> feed.Name]

\* Time.MarshalJSON writes the instant in RFC 3339 form: the monotonic clock
\* reading is not written; Time.UnmarshalJSON parses the instant back
MarshalTime_Zero(t) == 0
MarshalTime(t) == t.wall
UnmarshalTime(w) == Time(w, FALSE)
MarshalArticle(a) == [a EXCEPT !.Published = MarshalTime(@)]
UnmarshalArticle(o) == [o EXCEPT !.Published = UnmarshalTime(@)]

\* json.MarshalIndent of a []Article: a nil slice is written as null
Tok(t, v) == [t |-> t, v |-> v]
Marshal(id, s) ==
  IF id = NilArr THEN <<Tok("null", 0)>>
  ELSE <<Tok("[", 0)>> \o [i \in 1..Len(s) |-> Tok("obj", MarshalArticle(s[i]))] \o <<Tok("]", 0)>>

\* json.Unmarshal into a []Article: ok is FALSE for anything but a whole image
WellFormed(d) ==
  \/ d = <<Tok("null", 0)>>
  \/ /\ Len(d) >= 2
     /\ d[1].t = "[" /\ d[Len(d)].t = "]"
     /\ \A i \in 2..(Len(d) - 1) : d[i].t = "obj"
Unmarshal(d) ==
  IF ~WellFormed(d) THEN [ok |-> FALSE, nil |-> TRUE, val |-> <<>>]
  ELSE IF d[1].t = "null" THEN [ok |-> TRUE, nil |-> TRUE, val |-> <<>>]
  ELSE [ok |-> TRUE, nil |-> FALSE, val |-> [i \in 1..(Len(d) - 2) |-> UnmarshalArticle(d[i + 1].v)]]

\* what an interrupted write leaves of d: nothing, all but the end, or all of it
Prefixes(d) == {SubSeq(d, 1, n) : n \in {0, Len(d) - 1, Len(d)}}

\* sync.RWMutex: Lock waits for the writer and all readers, RLock for the writer
CanLock_IgnoreReaders == ~mu.writer
CanLock == ~mu.writer /\ mu.readers = {}
CanRLock == ~mu.writer

\* a RefreshFeeds call is in progress
Running == pc \notin {"boot", "init", "idle", "done", "crashed"}

\* the process is up: main has built the FeedManager and the UI model
Up == pc \notin {"boot", "crashed"}

\* the slice newArticles of the call: nil until append gave it an element
newArticles == IF heap[RunArr(nStarted)] = <<>> THEN NilArr ELSE RunArr(nStarted)

\* the garbage collector: array id is freed unless a returned slice holds it
Collect(h, id) ==
  [a \in ArrIds |-> IF a = id /\ a # NilArr /\ \A k \in Readers : rdRes[k] # a THEN <<>> ELSE h[a]]

\* feed.FeedSummary as SetSummary builds it: Generated is time.Now()
FeedSummary(name, n) ==
  [FeedName |-> name, Summary |-> n, Generated |-> Time(n, TRUE), ArticleCount |-> n]

\* the values fm.Summaries can take: a map from feed names to their summaries
SummaryMaps ==
  UNION { [names -> {FeedSummary(k, n) : k \in {"A", "B"}, n \in 1..MaxItems}] :
          names \in SUBSET {"A", "B"} }

\* saveSummaries: json.MarshalIndent of the map, one member per key;
\* loadSummaries: json.Unmarshal into a map that replaces fm.Summaries
saveSummaries(m) == [k \in DOMAIN m |-> [m[k] EXCEPT !.Generated = MarshalTime(@)]]
loadSummaries(d) == [k \in DOMAIN d |-> [d[k] EXCEPT !.Generated = UnmarshalTime(@)]]

\* m.feeds: "All" followed by the name of every configured feed
\* ConfigView.UpdateFeeds: the list is replaced; the cursor is moved to the
\* last entry when it is past the end of a list that has entries, and is
\* left where it is when the new list is empty
UpdateFeeds(feeds, cur) ==
  [feeds |-> feeds,
   cursor |-> IF cur >= Len(feeds) /\ Len(feeds) > 0 THEN Len(feeds) - 1 ELSE cur]

uiFeeds(cfg) == <<"All">> \o [i \in 1..Len(cfg) |-> cfg[i].Name]

\* updateArticlesList: the articles of the store that the current feed shows
\* ("All" shows every one); sorting them leaves their number as it is
Filtered(store, name) ==
  IF name = "All" THEN store ELSE SelectSeq(store, LAMBDA a : a.FeedName = name)

(* ------------------------------- Init ---------------------------------- *)
\* the image an earlier process left in the cache file
CachedImage == <<Article("A", 1, 0), Article("A", 2, 0)>>

\* loadCache: os.ReadFile (rd: the read succeeds) and json.Unmarshal. A
\* missing file is no error; a read or parse error is returned and fm.Articles
\* is not assigned; otherwise the decoded slice is installed
loadCache_NoNotExist(file, rd) ==
  IF ~file.exists \/ ~rd THEN [arr |-> NilArr, err |-> "read"]
  ELSE IF ~Unmarshal(file.data).ok THEN [arr |-> NilArr, err |-> "parse"]
  ELSE IF Unmarshal(file.data).nil THEN [arr |-> NilArr, err |-> ""]
  ELSE [arr |-> LoadArr, err |-> ""]
loadCache(file, rd) ==
  IF ~file.exists THEN [arr |-> NilArr, err |-> ""]
  ELSE IF ~rd THEN [arr |-> NilArr, err |-> "read"]
  ELSE IF ~Unmarshal(file.data).ok THEN [arr |-> NilArr, err |-> "parse"]
  ELSE IF Unmarshal(file.data).nil THEN [arr |-> NilArr, err |-> ""]
  ELSE [arr |-> LoadArr, err |-> ""]
loadedHeap(file, arr) ==
  [id \in ArrIds |-> IF id = LoadArr /\ arr = LoadArr THEN Unmarshal(file.data).val ELSE <<>>]

\* the process has started and main is about to call NewFeedManager
InitFeed ==
  /\ cacheFile \in { [exists |-> FALSE, data |-> <<>>],
                     [exists |-> TRUE, data |-> Marshal(LoadArr, CachedImage)] }
  /\ Feeds = <<>>
  /\ Articles = NilArr
  /\ heap = [id \in ArrIds |-> <<>>]
  /\ mu = [writer |-> FALSE, readers |-> {}]
  /\ nStarted = 0
  /\ pc = "boot"
  /\ task = <<>>
  /\ got = <<>>
  /\ articleCh = <<>>
  /\ errorCh = <<>>
  /\ chClosed = 0
  /\ errors = <<>>
  /\ ret = <<>>
  /\ data = <<>>
  /\ rdPc = [k \in Readers |-> "idle"]
  /\ rdRes = [k \in Readers |-> NilArr]
  /\ rdLen = [k \in Readers |-> 0]
  /\ seen = [k \in Readers |-> {}]
  /\ prevImage = [valid |-> FALSE, val |-> <<>>]
  /\ lostStore = <<>>
  /\ recovered = FALSE
  /\ sendOrder = <<>>
  /\ failOrder = <<>>
  /\ before = <<>>
  /\ saved = FALSE
  /\ loadErr = ""
  /\ loaded = FALSE
  /\ requested = FALSE
  /\ savedRecs = <<>>
  /\ writeOk = FALSE
  /\ Summaries = <<>>
  /\ summaryFile = [exists |-> FALSE, data |-> <<>>]
  /\ sumPc = "idle"
  /\ sumArg = <<>>
  /\ sumGot = <<>>

\* the prompts submitted in one behaviour: a prior session and a new one
Sessions == {1, 2}

\* NewModel: no prompt was submitted yet, the feeds view is shown
InitAsk ==
  /\ liveResponseCh = 0
  /\ nSess = 0
  /\ prod = [s \in Sessions |-> "none"]
  /\ nLines = [s \in Sessions |-> 0]
  /\ buffer = [s \in Sessions |-> <<>>]
  /\ scanErr = [s \in Sessions |-> FALSE]
  /\ sending = [s \in Sessions |-> <<>>]
  /\ respCh = [s \in Sessions |-> <<>>]
  /\ respClosed = [s \in Sessions |-> FALSE]
  /\ drains = {}
  /\ pulls = EmptyBag
  /\ askLLMResult = <<>>
  /\ errorMessage = <<>>
  /\ statusMessage = ""
  /\ currentView = "feeds"
  /\ submitting = FALSE
  /\ contentLines = FALSE
  /\ askRet = <<>>
  /\ modelsRet = <<>>
  /\ loading = FALSE
  /\ cmd = [c \in Commands |-> "none"]
  /\ cmdData = [c \in Commands |-> <<>>]
  /\ mFeeds = uiFeeds(<<FeedAll, FeedA, FeedB>>)
  /\ feedsIndex = 0
  /\ currentFeed = "All"
  /\ articlesItems = 0
  /\ articlesIndex = 0
  /\ multiSelectMode = FALSE
  /\ selectedArticleIndexes = {}
  /\ panicked = FALSE
  /\ cvFeeds = <<FeedAll, FeedA, FeedB>>
  /\ cursor = 0
  /\ mode = "view"
  /\ netCalls = [s \in Sessions \cup {0} |-> 0]
  /\ produced = [s \in Sessions |-> <<>>]
  /\ received = [s \in Sessions |-> <<>>]

\* llm.DefaultOllamaConfig: Enabled is true
Init == InitFeed /\ InitAsk /\ Enabled = TRUE

(* ------------------------------ startup -------------------------------- *)
\* NewFeedManager: Summaries is made empty, and loadSummaries replaces it by
\* what the summaries file holds, if there is one
loadedSummaries(file) == IF file.exists THEN loadSummaries(file.data) ELSE <<>>

\* main: NewFeedManager(feeds) with the "All" entry put in front; loadCache
\* runs, an error is printed as a warning, and the manager is returned
NewFeedManager(rd) ==
  /\ pc \in {"boot", "crashed"}
  /\ Articles' = loadCache(cacheFile, rd).arr
  /\ heap' = loadedHeap(cacheFile, loadCache(cacheFile, rd).arr)
  /\ loadErr' = loadCache(cacheFile, rd).err
  /\ loaded' = TRUE
  /\ Feeds' = <<FeedAll, FeedA, FeedB>>
  /\ recovered' = (pc = "crashed")
  /\ Summaries' = loadedSummaries(summaryFile)
  /\ pc' = "init"
  /\ UNCHANGED <<mu, cacheFile, nStarted, task, got, articleCh, errorCh, chClosed, errors, ret, data, rdPc, rdRes, rdLen, seen, prevImage, lostStore, sendOrder, failOrder, before, saved, requested, savedRecs, writeOk, summaryFile, sumPc, sumArg, sumGot, llmVars, selVars, cfgVars>>

\* what the command of Model.Init asks for once the configuration is loaded:
\* it returns fetchCompleteMsg and starts no fetch
InitCommand_Fetch == "fetchFeeds"
InitCommand == "fetchComplete"

(* --------------------------- RefreshFeeds ------------------------------ *)
\* fetchFeeds reloads the configuration, then RefreshFeeds makes the two
\* channels and launches one goroutine per feed with a non-empty URL.
\* The behaviours followed here are those in which a refresh is asked for
\* when no call is in progress; the handlers do not see to that (KeyR).
StartRun(cfg) ==
  /\ nStarted < MaxRefreshes
  /\ nStarted' = nStarted + 1
  /\ Feeds' = cfg
  /\ task' = [i \in 1..Len(cfg) |-> IF Launch(cfg[i]) THEN "running" ELSE "skip"]
  /\ got' = [i \in 1..Len(cfg) |-> <<>>]
  /\ articleCh' = <<>> /\ errorCh' = <<>> /\ chClosed' = 0
  /\ errors' = <<>> /\ ret' = <<>> /\ data' = <<>>
  /\ sendOrder' = <<>> /\ failOrder' = <<>> /\ saved' = FALSE /\ recovered' = FALSE
  /\ prevImage' = [valid |-> FALSE, val |-> <<>>] /\ lostStore' = <<>>
  /\ savedRecs' = <<>> /\ writeOk' = FALSE
  /\ before' = heap[Articles]
  /\ pc' = "recvArticles"
  /\ UNCHANGED <<Articles, heap, mu, cacheFile, rdVars, loadErr, loaded>>
  /\ UNCHANGED sumVars
  /\ UNCHANGED llmVars
  /\ UNCHANGED selVars
  /\ UNCHANGED cfgVars

\* the key "r", fetchStartMsg or saveConfigCompleteMsg: Update returns the
\* command fetchFeeds(m.feedManager)
StartRefresh(cfg) ==
  /\ pc \in {"idle", "done"}
  /\ requested' = TRUE
  /\ StartRun(cfg)

\* Model.Init: the command reloads the configuration into fm.Feeds and
\* returns fetchCompleteMsg without fetching; Update then lists the cached
\* articles
ModelInit(cfg) ==
  /\ pc = "init"
  /\ IF InitCommand = "fetchFeeds"
       THEN StartRun(cfg) /\ UNCHANGED requested
       ELSE /\ Feeds' = cfg
            /\ pc' = "idle"
            /\ UNCHANGED <<Articles, heap, mu, cacheFile, nStarted, task, got, articleCh,
                           errorCh, chClosed, errors, ret, data, rdVars, hist,
                           loadErr, loaded, requested, savedRecs, writeOk,
              Summaries, summaryFile, sumPc, sumArg, sumGot>>
            /\ UNCHANGED llmVars
            /\ UNCHANGED selVars
            /\ UNCHANGED cfgVars

\* make(chan []Article, len(fm.Feeds)), make(chan error, len(fm.Feeds)): a
\* send finds room while the channel holds fewer values than its capacity
Cap_One(feeds) == 1
Cap(feeds) == Len(feeds)

\* the goroutine of feed i: fetchFeed succeeded, the batch goes to articleCh
FetchOk(i, n) ==
  /\ Running /\ i \in DOMAIN task /\ task[i] = "running"
  /\ Len(articleCh) < Cap(Feeds)
  /\ articleCh' = Append(articleCh, fetchFeed(Feeds[i], n, nStarted))
  /\ task' = [task EXCEPT ![i] = "ok"]
  /\ got' = [got EXCEPT ![i] = fetchFeed(Feeds[i], n, nStarted)]
  /\ sendOrder' = Append(sendOrder, i)
  /\ UNCHANGED <<Feeds, Articles, heap, mu, cacheFile, nStarted, pc, errorCh, chClosed, errors, ret, data, rdPc, rdRes, rdLen, seen, prevImage, lostStore, recovered, failOrder, before, saved, loadErr, loaded, requested, savedRecs, writeOk, Summaries, summaryFile, sumPc, sumArg, sumGot, llmVars, selVars, cfgVars>>

\* the goroutine of feed i: fetchFeed failed, the wrapped error goes to errorCh
FetchFail(i) ==
  /\ Running /\ i \in DOMAIN task /\ task[i] = "running"
  /\ Len(errorCh) < Cap(Feeds)
  /\ errorCh' = Append(errorCh, FetchError(Feeds[i]))
  /\ task' = [task EXCEPT ![i] = "fail"]
  /\ failOrder' = Append(failOrder, i)
  /\ UNCHANGED <<Feeds, Articles, heap, mu, cacheFile, nStarted, pc, got, articleCh, chClosed, errors, ret, data, rdPc, rdRes, rdLen, seen, prevImage, lostStore, recovered, sendOrder, before, saved, loadErr, loaded, requested, savedRecs, writeOk, Summaries, summaryFile, sumPc, sumArg, sumGot, llmVars, selVars, cfgVars>>

\* the closer goroutine: wg.Wait(), close(articleCh), close(errorCh)
CloseChannels ==
  /\ Running /\ chClosed < 2
  /\ \A i \in DOMAIN task : task[i] # "running"
  /\ chClosed' = chClosed + 1
  /\ UNCHANGED <<Feeds, Articles, heap, mu, cacheFile, nStarted, pc, task, got, articleCh, errorCh, errors, ret, data, rdPc, rdRes, rdLen, seen, prevImage, lostStore, recovered, sendOrder, failOrder, before, saved, loadErr, loaded, requested, savedRecs, writeOk, Summaries, summaryFile, sumPc, sumArg, sumGot, llmVars, selVars, cfgVars>>

\* for articles := range articleCh { newArticles = append(newArticles, articles...) }
RecvArticles ==
  /\ pc = "recvArticles" /\ articleCh # <<>>
  /\ heap' = [heap EXCEPT ![RunArr(nStarted)] = AppendBatch(@, Head(articleCh))]
  /\ articleCh' = Tail(articleCh)
  /\ UNCHANGED <<Feeds, Articles, mu, cacheFile, nStarted, pc, task, got, errorCh, chClosed, errors, ret, data, rdPc, rdRes, rdLen, seen, prevImage, lostStore, recovered, sendOrder, failOrder, before, saved, loadErr, loaded, requested, savedRecs, writeOk, Summaries, summaryFile, sumPc, sumArg, sumGot, llmVars, selVars, cfgVars>>

\* the range over articleCh ends when the channel is closed and empty
ArticlesDrained ==
  /\ pc = "recvArticles" /\ articleCh = <<>> /\ chClosed >= 1
  /\ pc' = "recvErrors"
  /\ UNCHANGED <<Feeds, Articles, heap, mu, cacheFile, nStarted, task, got, articleCh, errorCh, chClosed, errors, ret, data, rdPc, rdRes, rdLen, seen, prevImage, lostStore, recovered, sendOrder, failOrder, before, saved, loadErr, loaded, requested, savedRecs, writeOk, Summaries, summaryFile, sumPc, sumArg, sumGot, llmVars, selVars, cfgVars>>

\* for err := range errorCh { errors = append(errors, err) }
RecvError ==
  /\ pc = "recvErrors" /\ errorCh # <<>>
  /\ errors' = Append(errors, Head(errorCh))
  /\ errorCh' = Tail(errorCh)
  /\ UNCHANGED <<Feeds, Articles, heap, mu, cacheFile, nStarted, pc, task, got, articleCh, chClosed, ret, data, rdPc, rdRes, rdLen, seen, prevImage, lostStore, recovered, sendOrder, failOrder, before, saved, loadErr, loaded, requested, savedRecs, writeOk, Summaries, summaryFile, sumPc, sumArg, sumGot, llmVars, selVars, cfgVars>>

\* return errors[0]
ReturnedError_Last(errs) == errs[Len(errs)]
ReturnedError(errs) == errs[1]

\* end of the range over errorCh; if len(errors) > 0 { return errors[0] }
ErrorsDrained ==
  /\ pc = "recvErrors" /\ errorCh = <<>> /\ chClosed = 2
  /\ IF Len(errors) > 0
       THEN /\ ret' = <<ReturnedError(errors)>>
            /\ pc' = "done"
            /\ heap' = Collect(heap, RunArr(nStarted))
       ELSE /\ pc' = "lock"
            /\ UNCHANGED <<ret, heap>>
  /\ UNCHANGED <<Feeds, Articles, mu, cacheFile, nStarted, task, got, articleCh, errorCh, chClosed, errors, data, rdPc, rdRes, rdLen, seen, prevImage, lostStore, recovered, sendOrder, failOrder, before, saved, loadErr, loaded, requested, savedRecs, writeOk, Summaries, summaryFile, sumPc, sumArg, sumGot, llmVars, selVars, cfgVars>>

\* fm.mu.Lock()
Lock ==
  /\ pc = "lock" /\ CanLock
  /\ mu' = [mu EXCEPT !.writer = TRUE]
  /\ pc' = "assign"
  /\ UNCHANGED <<Feeds, Articles, heap, cacheFile, nStarted, task, got, articleCh, errorCh, chClosed, errors, ret, data, rdPc, rdRes, rdLen, seen, prevImage, lostStore, recovered, sendOrder, failOrder, before, saved, loadErr, loaded, requested, savedRecs, writeOk, Summaries, summaryFile, sumPc, sumArg, sumGot, llmVars, selVars, cfgVars>>

\* fm.Articles = newArticles
Assign ==
  /\ pc = "assign"
  /\ Articles' = newArticles
  /\ heap' = Collect(heap, Articles)
  /\ seen' = [k \in Readers |-> IF rdPc[k] \in {"make", "copy"}
                                   THEN seen[k] \cup {heap[newArticles]} ELSE seen[k]]
  /\ pc' = "unlock"
  /\ UNCHANGED <<Feeds, mu, cacheFile, nStarted, task, got, articleCh, errorCh, chClosed, errors, ret, data, rdPc, rdRes, rdLen, prevImage, lostStore, recovered, sendOrder, failOrder, before, saved, loadErr, loaded, requested, savedRecs, writeOk, Summaries, summaryFile, sumPc, sumArg, sumGot, llmVars, selVars, cfgVars>>

\* fm.mu.Unlock()
Unlock ==
  /\ pc = "unlock"
  /\ mu' = [mu EXCEPT !.writer = FALSE]
  /\ pc' = "save"
  /\ UNCHANGED <<Feeds, Articles, heap, cacheFile, nStarted, task, got, articleCh, errorCh, chClosed, errors, ret, data, rdPc, rdRes, rdLen, seen, prevImage, lostStore, recovered, sendOrder, failOrder, before, saved, loadErr, loaded, requested, savedRecs, writeOk, Summaries, summaryFile, sumPc, sumArg, sumGot, llmVars, selVars, cfgVars>>

(* ----------------------------- saveCache ------------------------------- *)
\* if err := fm.saveCache(); err != nil { fmt.Printf("Warning: ...") }; return nil:
\* what RefreshFeeds returns after saveCache returned err ("" is nil)
AfterSave_Return(err) == IF err = "" THEN <<>> ELSE <<[name |-> err]>>
AfterSave(err) == <<>>

\* os.MkdirAll(dir): on an error saveCache returns it, RefreshFeeds prints a
\* warning and returns nil
SaveMkdir(ok) ==
  /\ pc = "save"
  /\ saved' = TRUE
  /\ prevImage' = [valid |-> cacheFile.exists /\ Unmarshal(cacheFile.data).ok,
                   val |-> Unmarshal(cacheFile.data).val]
  /\ IF ok THEN pc' = "rlock" /\ UNCHANGED ret
           ELSE pc' = "done" /\ ret' = AfterSave("mkdir")
  /\ UNCHANGED <<Feeds, Articles, heap, mu, cacheFile, nStarted, task, got, articleCh, errorCh, chClosed, errors, data, rdPc, rdRes, rdLen, seen, lostStore, recovered, sendOrder, failOrder, before, loadErr, loaded, requested, savedRecs, writeOk, Summaries, summaryFile, sumPc, sumArg, sumGot, llmVars, selVars, cfgVars>>

\* fm.mu.RLock()
SaveRLock ==
  /\ pc = "rlock" /\ CanRLock
  /\ mu' = [mu EXCEPT !.readers = @ \cup {"save"}]
  /\ pc' = "marshal"
  /\ UNCHANGED <<Feeds, Articles, heap, cacheFile, nStarted, task, got, articleCh, errorCh, chClosed, errors, ret, data, rdPc, rdRes, rdLen, seen, prevImage, lostStore, recovered, sendOrder, failOrder, before, saved, loadErr, loaded, requested, savedRecs, writeOk, Summaries, summaryFile, sumPc, sumArg, sumGot, llmVars, selVars, cfgVars>>

\* data := json.MarshalIndent(fm.Articles); fm.mu.RUnlock()
SaveMarshal ==
  /\ pc = "marshal"
  /\ data' = Marshal(Articles, heap[Articles])
  /\ savedRecs' = heap[Articles]
  /\ mu' = [mu EXCEPT !.readers = @ \ {"save"}]
  /\ pc' = "open"
  /\ UNCHANGED <<Feeds, Articles, heap, cacheFile, nStarted, task, got, articleCh, errorCh, chClosed, errors, ret, rdPc, rdRes, rdLen, seen, prevImage, lostStore, recovered, sendOrder, failOrder, before, saved, loadErr, loaded, requested, writeOk, Summaries, summaryFile, sumPc, sumArg, sumGot, llmVars, selVars, cfgVars>>

\* os.WriteFile opens the file with O_CREATE|O_TRUNC; an error ends saveCache
SaveOpen(ok) ==
  /\ pc = "open"
  /\ IF ok THEN /\ cacheFile' = [exists |-> TRUE, data |-> <<>>]
                /\ pc' = "write" /\ UNCHANGED ret
           ELSE /\ pc' = "done" /\ ret' = AfterSave("open") /\ UNCHANGED cacheFile
  /\ UNCHANGED <<Feeds, Articles, heap, mu, nStarted, task, got, articleCh, errorCh, chClosed, errors, data, rdPc, rdRes, rdLen, seen, prevImage, lostStore, recovered, sendOrder, failOrder, before, saved, loadErr, loaded, requested, savedRecs, writeOk, Summaries, summaryFile, sumPc, sumArg, sumGot, llmVars, selVars, cfgVars>>

\* os.WriteFile writes data and closes the file; a failing write leaves a
\* prefix of data behind. Either way RefreshFeeds returns nil
SaveWrite(d) ==
  /\ pc = "write"
  /\ d \in Prefixes(data)
  /\ cacheFile' = [exists |-> TRUE, data |-> d]
  /\ writeOk' = (d = data)
  /\ pc' = "done" /\ ret' = AfterSave(IF d = data THEN "" ELSE "write")
  /\ UNCHANGED <<Feeds, Articles, heap, mu, nStarted, task, got, articleCh, errorCh, chClosed, errors, data, rdPc, rdRes, rdLen, seen, prevImage, lostStore, recovered, sendOrder, failOrder, before, saved, loadErr, loaded, requested, savedRecs, Summaries, summaryFile, sumPc, sumArg, sumGot, llmVars, selVars, cfgVars>>

(* ----------------------------- GetArticles ----------------------------- *)
\* return result: GetArticles hands back the copy it built
Returned_Store(result, store) == store
Returned(result, store) == result

\* sort.Slice(filteredArticles, Published.After): newest first; sort.Slice is
\* not stable, so records published at the same time end in any order
Without(s, i) == [j \in 1..(Len(s) - 1) |-> IF j < i THEN s[j] ELSE s[j + 1]]
RECURSIVE SortedDesc(_)
SortedDesc(s) ==
  IF s = <<>> THEN {<<>>}
  ELSE UNION { { <<s[i]>> \o t : t \in SortedDesc(Without(s, i)) } :
               i \in { j \in 1..Len(s) : \A m \in 1..Len(s) : s[m].Published.wall <= s[j].Published.wall } }

\* GetArticles: fm.mu.RLock()
RdRLock(k) ==
  /\ Up /\ rdPc[k] = "idle" /\ CanRLock
  /\ mu' = [mu EXCEPT !.readers = @ \cup {k}]
  /\ seen' = [seen EXCEPT ![k] = {heap[Articles]}]
  /\ rdPc' = [rdPc EXCEPT ![k] = "make"]
  /\ UNCHANGED <<Feeds, Articles, heap, cacheFile, nStarted, pc, task, got, articleCh, errorCh, chClosed, errors, ret, data, rdRes, rdLen, prevImage, lostStore, recovered, sendOrder, failOrder, before, saved, loadErr, loaded, requested, savedRecs, writeOk, Summaries, summaryFile, sumPc, sumArg, sumGot, llmVars, selVars, cfgVars>>

\* result := make([]Article, len(fm.Articles))
RdMake(k) ==
  /\ Up /\ rdPc[k] = "make"
  /\ rdLen' = [rdLen EXCEPT ![k] = Len(heap[Articles])]
  /\ rdRes' = [rdRes EXCEPT ![k] = SnapArr(k)]
  /\ heap' = [heap EXCEPT ![SnapArr(k)] = [i \in 1..Len(heap[Articles]) |-> NoArticle]]
  /\ rdPc' = [rdPc EXCEPT ![k] = "copy"]
  /\ UNCHANGED <<Feeds, Articles, mu, cacheFile, nStarted, pc, task, got, articleCh, errorCh, chClosed, errors, ret, data, seen, prevImage, lostStore, recovered, sendOrder, failOrder, before, saved, loadErr, loaded, requested, savedRecs, writeOk, Summaries, summaryFile, sumPc, sumArg, sumGot, llmVars, selVars, cfgVars>>

\* copy(result, fm.Articles) copies min(len(result), len(fm.Articles)) elements;
\* return result, with the deferred fm.mu.RUnlock()
RdCopy(k) ==
  /\ Up /\ rdPc[k] = "copy"
  /\ LET copied == [i \in 1..rdLen[k] |->
                      IF i <= Len(heap[Articles]) THEN heap[Articles][i] ELSE heap[SnapArr(k)][i]]
         res == Returned(SnapArr(k), Articles)
     IN /\ rdRes' = [rdRes EXCEPT ![k] = res]
        /\ heap' = [heap EXCEPT ![SnapArr(k)] = IF res = SnapArr(k) THEN copied ELSE <<>>]
  /\ mu' = [mu EXCEPT !.readers = @ \ {k}]
  /\ rdPc' = [rdPc EXCEPT ![k] = "held"]
  /\ UNCHANGED <<Feeds, Articles, cacheFile, nStarted, pc, task, got, articleCh, errorCh, chClosed, errors, ret, data, rdLen, seen, prevImage, lostStore, recovered, sendOrder, failOrder, before, saved, loadErr, loaded, requested, savedRecs, writeOk, Summaries, summaryFile, sumPc, sumArg, sumGot, llmVars, selVars, cfgVars>>

\* updateArticlesList with currentFeed = "All": sort.Slice reorders the
\* returned slice in place
SortSnapshot(k, t) ==
  /\ Up /\ rdPc[k] = "held"
  /\ t \in SortedDesc(heap[rdRes[k]])
  /\ heap' = IF rdRes[k] = NilArr THEN heap ELSE [heap EXCEPT ![rdRes[k]] = t]
  /\ rdPc' = [rdPc EXCEPT ![k] = "sorted"]
  /\ UNCHANGED <<Feeds, Articles, mu, cacheFile, nStarted, pc, task, got, articleCh, errorCh, chClosed, errors, ret, data, rdRes, rdLen, seen, prevImage, lostStore, recovered, sendOrder, failOrder, before, saved, loadErr, loaded, requested, savedRecs, writeOk, Summaries, summaryFile, sumPc, sumArg, sumGot, llmVars, selVars, cfgVars>>

\* CreateArticlesList copies the items out and the slice is dropped
Release(k) ==
  /\ Up /\ rdPc[k] = "sorted"
  /\ heap' = [a \in ArrIds |->
                IF a = rdRes[k] /\ a # NilArr /\ a # Articles /\ \A j \in Readers \ {k} : rdRes[j] # a
                  THEN <<>> ELSE heap[a]]
  /\ rdPc' = [rdPc EXCEPT ![k] = "idle"]
  /\ rdRes' = [rdRes EXCEPT ![k] = NilArr]
  /\ rdLen' = [rdLen EXCEPT ![k] = 0]
  /\ seen' = [seen EXCEPT ![k] = {}]
  /\ UNCHANGED <<Feeds, Articles, mu, cacheFile, nStarted, pc, task, got, articleCh, errorCh, chClosed, errors, ret, data, prevImage, lostStore, recovered, sendOrder, failOrder, before, saved, loadErr, loaded, requested, savedRecs, writeOk, Summaries, summaryFile, sumPc, sumArg, sumGot, llmVars, selVars, cfgVars>>

(* ------------------------- crash and restart --------------------------- *)
SavePcs == {"save", "rlock", "marshal", "open", "write"}

\* the process stops inside saveCache (anywhere else the cache file is not
\* touched); a write in progress leaves a prefix of data
Crash(d) ==
  /\ pc \in SavePcs
  /\ d \in (IF pc = "write" THEN Prefixes(data) ELSE {cacheFile.data})
  /\ cacheFile' = [cacheFile EXCEPT !.data = d]
  /\ lostStore' = heap[Articles]
  /\ pc' = "crashed"
  /\ Articles' = NilArr
  /\ heap' = [a \in ArrIds |-> <<>>]
  /\ mu' = [writer |-> FALSE, readers |-> {}]
  /\ task' = <<>> /\ got' = <<>> /\ articleCh' = <<>> /\ errorCh' = <<>> /\ chClosed' = 0
  /\ errors' = <<>> /\ ret' = <<>> /\ data' = <<>>
  /\ rdPc' = [k \in Readers |-> "idle"]
  /\ rdRes' = [k \in Readers |-> NilArr]
  /\ rdLen' = [k \in Readers |-> 0]
  /\ seen' = [k \in Readers |-> {}]
  /\ sendOrder' = <<>> /\ failOrder' = <<>> /\ before' = <<>>
  /\ loadErr' = "" /\ loaded' = FALSE /\ requested' = FALSE
  /\ Feeds' = <<>>
  /\ Summaries' = <<>> /\ sumPc' = "idle" /\ sumArg' = <<>> /\ sumGot' = <<>>
  /\ UNCHANGED <<nStarted, prevImage, recovered, saved, savedRecs, writeOk, summaryFile, llmVars, selVars, cfgVars>>

\* the key "q" or ctrl+c: tea.Quit ends the program; the goroutines of a
\* RefreshFeeds call that has not reached saveCache die with it
Quit ==
  /\ Up /\ pc \notin SavePcs
  /\ pc' = "boot"
  /\ Articles' = NilArr
  /\ heap' = [a \in ArrIds |-> <<>>]
  /\ mu' = [writer |-> FALSE, readers |-> {}]
  /\ task' = <<>> /\ got' = <<>> /\ articleCh' = <<>> /\ errorCh' = <<>> /\ chClosed' = 0
  /\ errors' = <<>> /\ ret' = <<>> /\ data' = <<>>
  /\ rdPc' = [k \in Readers |-> "idle"]
  /\ rdRes' = [k \in Readers |-> NilArr]
  /\ rdLen' = [k \in Readers |-> 0]
  /\ seen' = [k \in Readers |-> {}]
  /\ sendOrder' = <<>> /\ failOrder' = <<>> /\ before' = <<>>
  /\ loadErr' = "" /\ loaded' = FALSE /\ requested' = FALSE
  /\ recovered' = FALSE
  /\ Feeds' = <<>>
  /\ Summaries' = <<>> /\ sumPc' = "idle" /\ sumArg' = <<>> /\ sumGot' = <<>>
  /\ UNCHANGED <<cacheFile, nStarted, prevImage, lostStore, saved, savedRecs, writeOk, summaryFile, llmVars, selVars, cfgVars>>

Next ==
  \/ \E rd \in BOOLEAN : NewFeedManager(rd)
  \/ \E cfg \in Configs : ModelInit(cfg)
  \/ \E cfg \in Configs : StartRefresh(cfg)
  \/ \E i \in 1..3, n \in ItemCounts : FetchOk(i, n)
  \/ \E i \in 1..3 : FetchFail(i)
  \/ CloseChannels
  \/ RecvArticles
  \/ ArticlesDrained
  \/ RecvError
  \/ ErrorsDrained
  \/ Lock
  \/ Assign
  \/ Unlock
  \/ \E ok \in BOOLEAN : SaveMkdir(ok)
  \/ SaveRLock
  \/ SaveMarshal
  \/ \E ok \in BOOLEAN : SaveOpen(ok)
  \/ \E d \in Prefixes(data) : SaveWrite(d)
  \/ \E k \in Readers : RdRLock(k)
  \/ \E k \in Readers : RdMake(k)
  \/ \E k \in Readers : RdCopy(k)
  \/ \E k \in Readers : \E t \in SortedDesc(heap[rdRes[k]]) : SortSnapshot(k, t)
  \/ \E k \in Readers : Release(k)
  \/ \E d \in Prefixes(data) \cup {cacheFile.data} : Crash(d)
  \/ Quit

Spec == Init /\ [][Next]_vars

\* one step of the closer goroutine or of the two range loops of RefreshFeeds
JoinStep ==
  CloseChannels \/ RecvArticles \/ ArticlesDrained \/ RecvError \/ ErrorsDrained

\* The behaviours of the fan-in: startup, the refreshes up to the end of the
\* two range loops, and the user quitting. The steps left out (the store's
\* lock, saveCache, GetArticles, a crash) touch neither channel
NextFanIn ==
  \/ \E rd \in BOOLEAN : NewFeedManager(rd)
  \/ \E cfg \in Configs : ModelInit(cfg)
  \/ \E cfg \in Configs : StartRefresh(cfg)
  \/ \E i \in 1..3, n \in ItemCounts : FetchOk(i, n)
  \/ \E i \in 1..3 : FetchFail(i)
  \/ CloseChannels
  \/ RecvArticles
  \/ ArticlesDrained
  \/ RecvError
  \/ ErrorsDrained
  \/ Quit

\* the closer goroutine and the caller of RefreshFeeds are goroutines that
\* run when they can; how long a fetch takes is up to the network
LiveFeed == Init /\ [][NextFanIn]_vars /\ WF_vars(JoinStep)

(* ----------------------------- summaries ------------------------------- *)
\* the feed names and article counts SetSummary is called with
SumNames == {"A", "B"}
SumCounts == 1..MaxItems

\* SetSummary: fm.mu.Lock(), with the Unlock deferred
SetSummaryLock(name, n) ==
  /\ Up /\ sumPc = "idle" /\ CanLock
  /\ mu' = [mu EXCEPT !.writer = TRUE]
  /\ sumArg' = <<[name |-> name, n |-> n]>>
  /\ sumPc' = "store"
  /\ UNCHANGED <<Feeds, Articles, heap, cacheFile, nStarted, pc, task, got, articleCh, errorCh, chClosed, errors, ret, data, rdPc, rdRes, rdLen, seen, prevImage, lostStore, recovered, sendOrder, failOrder, before, saved, loadErr, loaded, requested, savedRecs, writeOk, Summaries, summaryFile, sumGot, llmVars, selVars, cfgVars>>

\* fm.Summaries[feedName] = FeedSummary{...}
SetSummaryStore ==
  /\ sumPc = "store"
  /\ Summaries' = [k \in DOMAIN Summaries \cup {sumArg[1].name} |->
                     IF k = sumArg[1].name THEN FeedSummary(k, sumArg[1].n) ELSE Summaries[k]]
  /\ sumPc' = "mkdir"
  /\ UNCHANGED <<Feeds, Articles, heap, mu, cacheFile, nStarted, pc, task, got, articleCh, errorCh, chClosed, errors, ret, data, rdPc, rdRes, rdLen, seen, prevImage, lostStore, recovered, sendOrder, failOrder, before, saved, loadErr, loaded, requested, savedRecs, writeOk, summaryFile, sumArg, sumGot, llmVars, selVars, cfgVars>>

\* saveSummaries, called with the lock held: os.MkdirAll fails and
\* saveSummaries returns, or it succeeds and fm.mu.RLock() is next
SetSummaryMkdir(ok) ==
  /\ sumPc = "mkdir"
  /\ sumPc' = IF ok THEN "rlock" ELSE "return"
  /\ UNCHANGED <<Feeds, Articles, heap, mu, cacheFile, nStarted, pc, task, got, articleCh, errorCh, chClosed, errors, ret, data, rdPc, rdRes, rdLen, seen, prevImage, lostStore, recovered, sendOrder, failOrder, before, saved, loadErr, loaded, requested, savedRecs, writeOk, Summaries, summaryFile, sumArg, sumGot, llmVars, selVars, cfgVars>>

\* the rest of the call. In saveSummaries: fm.mu.RLock(), which waits while a
\* writer holds fm.mu, json.MarshalIndent, RUnlock and os.WriteFile; then
\* SetSummary returns and its deferred fm.mu.Unlock() runs
SetSummaryReturn ==
  /\ sumPc \in {"rlock", "return"}
  /\ sumPc = "rlock" => CanRLock
  /\ summaryFile' = IF sumPc = "rlock"
                       THEN [exists |-> TRUE, data |-> saveSummaries(Summaries)]
                       ELSE summaryFile
  /\ mu' = [mu EXCEPT !.writer = FALSE]
  /\ sumPc' = "idle"
  /\ UNCHANGED <<Feeds, Articles, heap, cacheFile, nStarted, pc, task, got, articleCh, errorCh, chClosed, errors, ret, data, rdPc, rdRes, rdLen, seen, prevImage, lostStore, recovered, sendOrder, failOrder, before, saved, loadErr, loaded, requested, savedRecs, writeOk, Summaries, sumArg, sumGot, llmVars, selVars, cfgVars>>

\* GetSummary: RLock, the map lookup, RUnlock
GetSummary(name) ==
  /\ Up /\ CanRLock
  /\ sumGot' = IF name \in DOMAIN Summaries THEN <<Summaries[name]>> ELSE <<>>
  /\ UNCHANGED <<Feeds, Articles, heap, mu, cacheFile, nStarted, pc, task, got, articleCh, errorCh, chClosed, errors, ret, data, rdPc, rdRes, rdLen, seen, prevImage, lostStore, recovered, sendOrder, failOrder, before, saved, loadErr, loaded, requested, savedRecs, writeOk, Summaries, summaryFile, sumPc, sumArg, llmVars, selVars, cfgVars>>

NextSum ==
  \/ \E rd \in BOOLEAN : NewFeedManager(rd)
  \/ \E cfg \in Configs : ModelInit(cfg)
  \/ \E name \in SumNames, n \in SumCounts : SetSummaryLock(name, n)
  \/ SetSummaryStore
  \/ \E ok \in BOOLEAN : SetSummaryMkdir(ok)
  \/ SetSummaryReturn
  \/ \E name \in SumNames : GetSummary(name)
  \/ \E k \in Readers : RdRLock(k)
  \/ \E k \in Readers : RdMake(k)
  \/ \E k \in Readers : RdCopy(k)
  \/ \E k \in Readers : \E t \in SortedDesc(heap[rdRes[k]]) : SortSnapshot(k, t)
  \/ \E k \in Readers : Release(k)
  \/ Quit

\* the feed manager with callers of SetSummary, GetSummary and GetArticles
SpecSum == Init /\ [][NextSum]_vars

(* ---------------------------- llm/ollama.go ---------------------------- *)
\* llm.StreamingResponseMsg; of tells which prompt the chunk answers
Chunk(content, done, err, s) == [Content |-> content, Done |-> done, Err |-> err, of |-> s]

\* streamResp.Response of line i of the answer to prompt s; "" is <<>>
Text(s, i) == << <<s, i>> >>

\* if !config.Enabled
Disabled_Never(enabled) == FALSE
Disabled(enabled) == ~enabled

\* how a request to the Ollama API can end for AskOllama: a response without
\* an error, or the error of one of its steps
Replies == {"ok", "post", "status", "read", "parse", "api"}

\* AskOllama: the answer, the error ("" is nil) and the HTTP requests made
AskOllama_NoCheck(enabled, reply) ==
  IF reply = "ok" THEN [text |-> Text(0, 1), err |-> "", net |-> 1]
  ELSE [text |-> <<>>, err |-> reply, net |-> 1]
AskOllama(enabled, reply) ==
  IF Disabled(enabled) THEN [text |-> <<>>, err |-> "disabled", net |-> 0]
  ELSE IF reply = "ok" THEN [text |-> Text(0, 1), err |-> "", net |-> 1]
  ELSE [text |-> <<>>, err |-> reply, net |-> 1]

\* a call of AskOllama, made before any prompt is submitted
CallAskOllama(reply) ==
  /\ askRet = <<>> /\ modelsRet = <<>> /\ nSess = 0 /\ currentView = "feeds"
  /\ askRet' = <<AskOllama(Enabled, reply)>>
  /\ netCalls' = [netCalls EXCEPT ![0] = @ + AskOllama(Enabled, reply).net]
  /\ UNCHANGED <<feedVars, Enabled, liveResponseCh, nSess, prod, nLines, buffer, scanErr, sending, respCh, respClosed, drains, pulls, askLLMResult, errorMessage, statusMessage, currentView, submitting, contentLines, modelsRet, loading, cmd, cmdData, produced, received, selVars, cfgVars>>

\* the caller is done with what AskOllama returned
AskOllamaReturned ==
  /\ askRet # <<>>
  /\ askRet' = <<>>
  /\ netCalls' = [netCalls EXCEPT ![0] = 0]
  /\ UNCHANGED <<feedVars, Enabled, liveResponseCh, nSess, prod, nLines, buffer, scanErr, sending, respCh, respClosed, drains, pulls, askLLMResult, errorMessage, statusMessage, currentView, submitting, contentLines, modelsRet, loading, cmd, cmdData, produced, received, selVars, cfgVars>>

\* how a request for /api/tags can end: a response that decodes, the error of
\* client.Get, or the error of the decoder
TagReplies == {"ok", "fetch", "parse"}

\* GetAvailableModels: the model names, the error ("" is nil) and the HTTP
\* requests made. The function does not read config.Enabled
GetAvailableModels(enabled, reply) ==
  IF reply = "ok" THEN [models |-> <<"model">>, err |-> "", net |-> 1]
  ELSE [models |-> <<>>, err |-> reply, net |-> 1]

\* a call of GetAvailableModels, made before any prompt is submitted
CallGetAvailableModels(reply) ==
  /\ askRet = <<>> /\ modelsRet = <<>> /\ nSess = 0 /\ currentView = "feeds"
  /\ modelsRet' = <<GetAvailableModels(Enabled, reply)>>
  /\ UNCHANGED <<feedVars, Enabled, liveResponseCh, nSess, prod, nLines, buffer, scanErr, sending, respCh, respClosed, drains, pulls, askLLMResult, errorMessage, statusMessage, currentView, submitting, contentLines, askRet, loading, cmd, cmdData, netCalls, produced, received, selVars, cfgVars>>

\* the caller is done with what GetAvailableModels returned
GetAvailableModelsReturned ==
  /\ modelsRet # <<>>
  /\ modelsRet' = <<>>
  /\ UNCHANGED <<feedVars, Enabled, liveResponseCh, nSess, prod, nLines, buffer, scanErr, sending, respCh, respClosed, drains, pulls, askLLMResult, errorMessage, statusMessage, currentView, submitting, contentLines, askRet, loading, cmd, cmdData, netCalls, produced, received, selVars, cfgVars>>

\* the goroutine of AskOllamaStreaming starts: a disabled client sends the
\* error chunk and returns; json.Marshal of the request cannot fail
ProdStart(s) ==
  /\ askRet = <<>> /\ prod[s] = "start"
  /\ IF Disabled(Enabled)
       THEN /\ sending' = [sending EXCEPT ![s] = <<Chunk(<<>>, TRUE, "disabled", s)>>]
            /\ prod' = [prod EXCEPT ![s] = "send"]
       ELSE /\ prod' = [prod EXCEPT ![s] = "post"]
            /\ UNCHANGED sending
  /\ UNCHANGED <<feedVars, Enabled, liveResponseCh, nSess, nLines, buffer, scanErr, respCh, respClosed, drains, pulls, askLLMResult, errorMessage, statusMessage, currentView, submitting, contentLines, askRet, modelsRet, loading, cmd, cmdData, netCalls, produced, received, selVars, cfgVars>>

\* client.Post and the status check: r is "ok", or "request" when the call
\* fails or the status is not 200
ProdPost(s, r) ==
  /\ prod[s] = "post"
  /\ netCalls' = [netCalls EXCEPT ![s] = @ + 1]
  /\ IF r = "ok"
       THEN /\ prod' = [prod EXCEPT ![s] = "stream"]
            /\ UNCHANGED sending
       ELSE /\ sending' = [sending EXCEPT ![s] = <<Chunk(<<>>, TRUE, r, s)>>]
            /\ prod' = [prod EXCEPT ![s] = "send"]
  /\ UNCHANGED <<feedVars, Enabled, liveResponseCh, nSess, nLines, buffer, scanErr, respCh, respClosed, drains, pulls, askLLMResult, errorMessage, statusMessage, currentView, submitting, contentLines, askRet, modelsRet, loading, cmd, cmdData, produced, received, selVars, cfgVars>>

\* what the next scanner.Scan() brings: a line with text, the line with done
\* (with or without text), the end of the body, or "stream": a line that does
\* not parse, a line with Error or a Scan that fails with a read error. A
\* blank line and a line with an empty Response send nothing and leave the
\* goroutine where it is. A Scanner hands out the lines it holds before it
\* reports the error of the Read that brought them: "doneErr" is the line
\* with done returned while the scanner holds such an error (after a line
\* without done the error shows at the next Scan, which is "stream")
LineKinds == {"text", "done", "doneText", "doneErr", "stream", "eof"}

\* streamResp.Response and streamResp.Done of a line of kind k, read after n
\* lines with text
Response(s, k, n) == IF k \in {"text", "doneText"} THEN Text(s, n + 1) ELSE <<>>
LineDone(k) == k \in {"done", "doneText", "doneErr"}

\* bufferThreshold := 1; the buffer is sent when
\* len(buffer) >= bufferThreshold || streamResp.Done
bufferThreshold == 1
Flush_OnDone(buf, done) == done
Flush(buf, done) == Len(buf) >= bufferThreshold \/ done

\* one turn of for scanner.Scan() { ... }, or the end of the loop: an error
\* is sent at once; otherwise the text is added to the buffer and the buffer
\* is sent and emptied when Flush says so
ProdLine(s, k) ==
  /\ prod[s] = "stream"
  /\ k \in {"text", "doneText"} => nLines[s] < MaxChunks
  /\ IF k = "eof"
       THEN /\ prod' = [prod EXCEPT ![s] = "ret"]
            /\ UNCHANGED <<sending, nLines, buffer, scanErr>>
       ELSE IF k = "stream"
       THEN /\ sending' = [sending EXCEPT ![s] = <<Chunk(<<>>, TRUE, k, s)>>]
            /\ prod' = [prod EXCEPT ![s] = "send"]
            /\ UNCHANGED <<nLines, buffer, scanErr>>
       ELSE LET buf == buffer[s] \o Response(s, k, nLines[s]) IN
            /\ nLines' = [nLines EXCEPT ![s] = IF k \in {"text", "doneText"} THEN @ + 1 ELSE @]
            /\ IF Flush(buf, LineDone(k))
                 THEN /\ sending' = [sending EXCEPT ![s] = <<Chunk(buf, LineDone(k), "", s)>>]
                      /\ buffer' = [buffer EXCEPT ![s] = <<>>]
                      /\ prod' = [prod EXCEPT ![s] = "send"]
                 ELSE /\ buffer' = [buffer EXCEPT ![s] = buf]
                      /\ UNCHANGED <<sending, prod>>
            /\ scanErr' = [scanErr EXCEPT ![s] = (k = "doneErr")]
  /\ UNCHANGED <<feedVars, Enabled, liveResponseCh, nSess, respCh, respClosed, drains, pulls, askLLMResult, errorMessage, statusMessage, currentView, submitting, contentLines, askRet, modelsRet, loading, cmd, cmdData, netCalls, produced, received, selVars, cfgVars>>

\* the texts a chunk of prompt s can carry: consecutive lines' texts, joined
Joined(s, a, b) == Concat([i \in 1..(b - a + 1) |-> Text(s, a + i - 1)])
Contents_Of(s) == {Joined(s, a, b) : a \in 1..MaxChunks, b \in 0..MaxChunks}

\* every chunk the goroutine of prompt s can send
Chunks(s) ==
  {Chunk(c, d, "", s) : c \in Contents_Of(s), d \in BOOLEAN}
    \cup {Chunk(<<>>, TRUE, e, s) : e \in {"disabled", "request", "stream"}}

\* responseChannel <- msg blocks while the channel holds cap(responseChannel) chunks
CanSend(s) == Len(respCh[s]) < ChanCap

\* if err := scanner.Err(); err != nil, after the loop
AfterLoop(held) == held

\* responseChannel <- msg: after an error chunk the goroutine returns; after
\* the chunk with done it breaks out of the loop and, if scanner.Err() is not
\* nil, has the read error to send; otherwise it scans the next line
ProdSend(s) ==
  /\ prod[s] = "send" /\ CanSend(s)
  /\ respCh' = [respCh EXCEPT ![s] = Append(@, sending[s][1])]
  /\ produced' = [produced EXCEPT ![s] = Append(@, sending[s][1])]
  /\ IF sending[s][1].Err = "" /\ sending[s][1].Done /\ AfterLoop(scanErr[s])
       THEN /\ sending' = [sending EXCEPT ![s] = <<Chunk(<<>>, TRUE, "stream", s)>>]
            /\ scanErr' = [scanErr EXCEPT ![s] = FALSE]
            /\ UNCHANGED prod
       ELSE /\ sending' = [sending EXCEPT ![s] = <<>>]
            /\ prod' = [prod EXCEPT ![s] = IF sending[s][1].Done THEN "ret" ELSE "stream"]
            /\ UNCHANGED scanErr
  /\ UNCHANGED <<feedVars, Enabled, liveResponseCh, nSess, nLines, buffer, respClosed, drains, pulls, askLLMResult, errorMessage, statusMessage, currentView, submitting, contentLines, askRet, modelsRet, loading, cmd, cmdData, netCalls, received, selVars, cfgVars>>

\* defer close(responseChannel): the channel is closed when the goroutine
\* returns, on whichever path
DeferredClose_None(closed) == closed
DeferredClose(closed) == TRUE
ProdClose(s) ==
  /\ prod[s] = "ret"
  /\ respClosed' = [respClosed EXCEPT ![s] = DeferredClose(@)]
  /\ prod' = [prod EXCEPT ![s] = "closed"]
  /\ UNCHANGED <<feedVars, Enabled, liveResponseCh, nSess, nLines, buffer, scanErr, sending, respCh, drains, pulls, askLLMResult, errorMessage, statusMessage, currentView, submitting, contentLines, askRet, modelsRet, loading, cmd, cmdData, netCalls, produced, received, selVars, cfgVars>>

(* --------------------------- the Ask LLM view -------------------------- *)
\* a pull command: the closure reads m.liveResponseCh of the Model value it
\* was created in, so it keeps the channel that was current then
Pull(ch) == [ch |-> ch, msg |-> <<>>]

\* the first pull command, created by the Update that handles the prompt
\* after m.liveResponseCh was set to the new channel
FirstPull_Nil(live) == Pull(0)
FirstPull(live) == Pull(live)

\* AskLLMView.View, called after every Update while the view is shown:
\* contentLines is set when there is a result to show
Render(view, result, lines) == IF view = "ask" /\ result # <<>> THEN TRUE ELSE lines

\* the key "a" in the feeds view: a new AskLLMView is shown
OpenAsk ==
  /\ askRet = <<>> /\ modelsRet = <<>> /\ currentView = "feeds"
  /\ currentView' = "ask"
  /\ submitting' = FALSE
  /\ contentLines' = Render("ask", askLLMResult, FALSE)
  /\ UNCHANGED <<feedVars, Enabled, liveResponseCh, nSess, prod, nLines, buffer, scanErr, sending, respCh, respClosed, drains, pulls, askLLMResult, errorMessage, statusMessage, askRet, modelsRet, loading, cmd, cmdData, netCalls, produced, received, selVars, cfgVars>>

\* the drain goroutine is started for the channel of a prior prompt
Drained_None(live, ds) == ds
Drained(live, ds) == IF live # 0 THEN ds \cup {live} ELSE ds

\* Enter with a prompt: the answer is reset, the prior channel is handed to a
\* drain goroutine, AskOllamaStreaming starts the producer of the new channel
\* and the first pull command is returned
Submit ==
  /\ currentView = "ask" /\ ~submitting /\ ~contentLines
  /\ nSess < Cardinality(Sessions)
  /\ nSess' = nSess + 1
  /\ submitting' = TRUE
  /\ statusMessage' = "Asking LLM..."
  /\ askLLMResult' = <<>>
  /\ contentLines' = FALSE
  /\ drains' = Drained(liveResponseCh, drains)
  /\ liveResponseCh' = nSess + 1
  /\ prod' = [prod EXCEPT ![nSess + 1] = "start"]
  /\ pulls' = pulls (+) SetToBag({FirstPull(nSess + 1)})
  /\ UNCHANGED <<feedVars, Enabled, nLines, buffer, scanErr, sending, respCh, respClosed, errorMessage, currentView, askRet, modelsRet, loading, cmd, cmdData, netCalls, produced, received, selVars, cfgVars>>

\* Esc (Update treats Enter on an empty prompt the same way): the answer is
\* cleared and the feeds view is shown again; the channel and its pull
\* command are left alone
Cancel ==
  /\ currentView = "ask"
  /\ askLLMResult' = <<>>
  /\ currentView' = "feeds"
  /\ contentLines' = IF submitting THEN contentLines ELSE FALSE
  /\ UNCHANGED <<feedVars, Enabled, liveResponseCh, nSess, prod, nLines, buffer, scanErr, sending, respCh, respClosed, drains, pulls, errorMessage, statusMessage, submitting, askRet, modelsRet, loading, cmd, cmdData, netCalls, produced, received, selVars, cfgVars>>

\* for range ch { }: the drain goroutine drops a chunk
DrainRecv(s) ==
  /\ s \in drains /\ respCh[s] # <<>>
  /\ respCh' = [respCh EXCEPT ![s] = Tail(@)]
  /\ received' = [received EXCEPT ![s] = Append(@, Head(respCh[s]))]
  /\ UNCHANGED <<feedVars, Enabled, liveResponseCh, nSess, prod, nLines, buffer, scanErr, sending, respClosed, drains, pulls, askLLMResult, errorMessage, statusMessage, currentView, submitting, contentLines, askRet, modelsRet, loading, cmd, cmdData, netCalls, produced, selVars, cfgVars>>

\* the range ends when the channel is closed and empty
DrainEnd(s) ==
  /\ s \in drains /\ respCh[s] = <<>> /\ respClosed[s]
  /\ drains' = drains \ {s}
  /\ UNCHANGED <<feedVars, Enabled, liveResponseCh, nSess, prod, nLines, buffer, scanErr, sending, respCh, respClosed, pulls, askLLMResult, errorMessage, statusMessage, currentView, submitting, contentLines, askRet, modelsRet, loading, cmd, cmdData, netCalls, produced, received, selVars, cfgVars>>

\* the message a pull command returns for what it received
StreamMsg_ClosedNotDone(ch, ok, chunk) ==
  IF ch = 0 THEN [content |-> <<>>, done |-> TRUE, err |-> "nil channel", of |-> 0]
  ELSE IF ~ok THEN [content |-> <<>>, done |-> FALSE, err |-> "", of |-> ch]
  ELSE IF chunk.Err # "" THEN [content |-> <<>>, done |-> TRUE, err |-> chunk.Err, of |-> ch]
  ELSE [content |-> chunk.Content, done |-> chunk.Done, err |-> "", of |-> ch]
StreamMsg(ch, ok, chunk) ==
  IF ch = 0 THEN [content |-> <<>>, done |-> TRUE, err |-> "nil channel", of |-> 0]
  ELSE IF ~ok THEN [content |-> <<>>, done |-> TRUE, err |-> "", of |-> ch]
  ELSE IF chunk.Err # "" THEN [content |-> <<>>, done |-> TRUE, err |-> chunk.Err, of |-> ch]
  ELSE [content |-> chunk.Content, done |-> chunk.Done, err |-> "", of |-> ch]

\* every message a pull command on channel ch can return
StreamMsgs(ch) == {StreamMsg(ch, TRUE, c) : c \in Chunks(ch)} \cup {StreamMsg(ch, FALSE, <<>>)}

\* chunk, ok := <-m.liveResponseCh in a pull command
PullRecv(p) ==
  /\ BagIn(p, pulls) /\ p.msg = <<>>
  /\ \/ /\ respCh[p.ch] # <<>>
        /\ respCh' = [respCh EXCEPT ![p.ch] = Tail(@)]
        /\ received' = [received EXCEPT ![p.ch] = Append(@, Head(respCh[p.ch]))]
        /\ pulls' = (pulls (-) SetToBag({p})) (+)
                    SetToBag({[p EXCEPT !.msg = <<StreamMsg(p.ch, TRUE, Head(respCh[p.ch]))>>]})
     \/ /\ respCh[p.ch] = <<>> /\ respClosed[p.ch]
        /\ pulls' = (pulls (-) SetToBag({p})) (+)
                    SetToBag({[p EXCEPT !.msg = <<StreamMsg(p.ch, FALSE, <<>>)>>]})
        /\ UNCHANGED <<respCh, received>>
  /\ UNCHANGED <<feedVars, Enabled, liveResponseCh, nSess, prod, nLines, buffer, scanErr, sending, respClosed, drains, askLLMResult, errorMessage, statusMessage, currentView, submitting, contentLines, askRet, modelsRet, loading, cmd, cmdData, netCalls, produced, selVars, cfgVars>>

\* the pull command Update returns after a chunk that is not the last one
NextPull(live, p) == Pull(live)

\* Update, case streamingLLMResponseMsg: an error is shown and ends the
\* pulling; otherwise the content is appended to the answer and, unless the
\* chunk is the last one, the next pull command is returned
HandleStreamMsg(p) ==
  /\ BagIn(p, pulls) /\ p.msg # <<>>
  /\ submitting' = FALSE
  /\ LET msg == p.msg[1] IN
       IF msg.err # ""
         THEN /\ errorMessage' = <<[err |-> msg.err, of |-> msg.of]>>
              /\ statusMessage' = "Ask LLM failed"
              /\ pulls' = pulls (-) SetToBag({p})
              /\ UNCHANGED <<askLLMResult, contentLines>>
         ELSE /\ askLLMResult' = askLLMResult \o msg.content
              /\ contentLines' = Render(currentView, askLLMResult \o msg.content, contentLines)
              /\ IF ~msg.done
                   THEN /\ pulls' = (pulls (-) SetToBag({p})) (+) SetToBag({NextPull(liveResponseCh, p)})
                        /\ UNCHANGED statusMessage
                   ELSE /\ pulls' = pulls (-) SetToBag({p})
                        /\ statusMessage' = "LLM answered"
              /\ UNCHANGED errorMessage
  /\ UNCHANGED <<feedVars, Enabled, liveResponseCh, nSess, prod, nLines, buffer, scanErr, sending, respCh, respClosed, drains, currentView, askRet, modelsRet, loading, cmd, cmdData, netCalls, produced, received, selVars, cfgVars>>

(* ------------------------ ui/app.go: refreshes ------------------------- *)
\* The key "r" outside the Ask LLM and configuration views: Update sets
\* m.loading and returns the command fetchFeeds; it reads neither m.loading
\* nor anything else that tells whether a refresh is running. Bubble Tea
\* runs each command it is handed in a goroutine of its own
KeyR(c) ==
  /\ currentView = "feeds" /\ cmd[c] = "none"
  /\ loading' = TRUE
  /\ statusMessage' = "Refreshing feeds..."
  /\ cmd' = [cmd EXCEPT ![c] = "load"]
  /\ UNCHANGED <<feedVars, Enabled, liveResponseCh, nSess, prod, nLines, buffer, scanErr, sending, respCh, respClosed, drains, pulls, askLLMResult, errorMessage, currentView, submitting, contentLines, askRet, modelsRet, cmdData, netCalls, produced, received, selVars, cfgVars>>

\* saveConfigCompleteMsg, sent by the command saveConfig: an error is shown,
\* a success starts fetchFeeds the same way. (fetchStartMsg has a handler
\* that does the same, but nothing in the program sends it)
SaveConfigComplete(c, ok) ==
  /\ cmd[c] = "none"
  /\ IF ok
       THEN /\ loading' = TRUE
            /\ statusMessage' = "Config saved, refreshing feeds..."
            /\ cmd' = [cmd EXCEPT ![c] = "load"]
            /\ UNCHANGED errorMessage
       ELSE /\ errorMessage' = <<[err |-> "save", of |-> 0]>>
            /\ UNCHANGED <<loading, statusMessage, cmd>>
  /\ UNCHANGED <<feedVars, Enabled, liveResponseCh, nSess, prod, nLines, buffer, scanErr, sending, respCh, respClosed, drains, pulls, askLLMResult, currentView, submitting, contentLines, askRet, modelsRet, cmdData, netCalls, produced, received, selVars, cfgVars>>

\* the command fetchFeeds: config.LoadConfig and fm.Feeds = cfg.Feeds
CmdLoadConfig(c, cfg) ==
  /\ cmd[c] = "load"
  /\ Feeds' = cfg
  /\ cmd' = [cmd EXCEPT ![c] = "refresh"]
  /\ UNCHANGED <<Articles, heap, mu, cacheFile, nStarted, pc, task, got, articleCh, errorCh, chClosed, errors, ret, data, rdPc, rdRes, rdLen, seen, prevImage, lostStore, recovered, sendOrder, failOrder, before, saved, loadErr, loaded, requested, savedRecs, writeOk, Summaries, summaryFile, sumPc, sumArg, sumGot, Enabled, liveResponseCh, nSess, prod, nLines, buffer, scanErr, sending, respCh, respClosed, drains, pulls, askLLMResult, errorMessage, statusMessage, currentView, submitting, contentLines, askRet, modelsRet, loading, cmdData, netCalls, produced, received, selVars, cfgVars>>

\* the command fetchFeeds inside fm.RefreshFeeds, one step for each part of
\* the call that other calls can come between. The fan-in: with an error the
\* call returns it; otherwise newArticles holds what this call fetched
CmdRefreshFeeds(c, ok) ==
  /\ cmd[c] = "refresh"
  /\ cmd' = [cmd EXCEPT ![c] = IF ok THEN "assign" ELSE "fail"]
  /\ UNCHANGED <<feedVars, Enabled, liveResponseCh, nSess, prod, nLines, buffer, scanErr, sending, respCh, respClosed, drains, pulls, askLLMResult, errorMessage, statusMessage, currentView, submitting, contentLines, askRet, modelsRet, loading, cmdData, netCalls, produced, received, selVars, cfgVars>>

\* fm.mu.Lock(); fm.Articles = newArticles; fm.mu.Unlock()
CmdAssign(c) ==
  /\ cmd[c] = "assign"
  /\ Articles' = CmdArr(c)
  /\ heap' = [id \in ArrIds |-> IF id = CmdArr(c) THEN fetchFeed(FeedA, MaxItems, c) ELSE <<>>]
  /\ cmd' = [cmd EXCEPT ![c] = "marshal"]
  /\ UNCHANGED <<Feeds, mu, cacheFile, nStarted, pc, task, got, articleCh, errorCh, chClosed, errors, ret, data, rdPc, rdRes, rdLen, seen, prevImage, lostStore, recovered, sendOrder, failOrder, before, saved, loadErr, loaded, requested, savedRecs, writeOk, Summaries, summaryFile, sumPc, sumArg, sumGot, Enabled, liveResponseCh, nSess, prod, nLines, buffer, scanErr, sending, respCh, respClosed, drains, pulls, askLLMResult, errorMessage, statusMessage, currentView, submitting, contentLines, askRet, modelsRet, loading, cmdData, netCalls, produced, received, selVars, cfgVars>>

\* saveCache: fm.mu.RLock(); data := json.MarshalIndent(fm.Articles); fm.mu.RUnlock()
CmdMarshal(c) ==
  /\ cmd[c] = "marshal"
  /\ cmdData' = [cmdData EXCEPT ![c] = Marshal(Articles, heap[Articles])]
  /\ cmd' = [cmd EXCEPT ![c] = "write"]
  /\ UNCHANGED <<feedVars, Enabled, liveResponseCh, nSess, prod, nLines, buffer, scanErr, sending, respCh, respClosed, drains, pulls, askLLMResult, errorMessage, statusMessage, currentView, submitting, contentLines, askRet, modelsRet, loading, netCalls, produced, received, selVars, cfgVars>>

\* saveCache: os.WriteFile(fm.cachePath, data) writes the file or fails and
\* leaves it; RefreshFeeds returns nil and the command fetchCompleteMsg
CmdWrite(c, ok) ==
  /\ cmd[c] = "write"
  /\ cacheFile' = IF ok THEN [exists |-> TRUE, data |-> cmdData[c]] ELSE cacheFile
  /\ writeOk' = ok
  /\ cmdData' = [cmdData EXCEPT ![c] = <<>>]
  /\ cmd' = [cmd EXCEPT ![c] = "ok"]
  /\ UNCHANGED <<Feeds, Articles, heap, mu, nStarted, pc, task, got, articleCh, errorCh, chClosed, errors, ret, data, rdPc, rdRes, rdLen, seen, prevImage, lostStore, recovered, sendOrder, failOrder, before, saved, loadErr, loaded, requested, savedRecs, Summaries, summaryFile, sumPc, sumArg, sumGot, Enabled, liveResponseCh, nSess, prod, nLines, buffer, scanErr, sending, respCh, respClosed, drains, pulls, askLLMResult, errorMessage, statusMessage, currentView, submitting, contentLines, askRet, modelsRet, loading, netCalls, produced, received, selVars, cfgVars>>

\* Update on the fetchCompleteMsg of a command: after a success m.feeds and
\* the feeds list are built anew from fm.Feeds, the current feed is the one
\* the new list has selected, and updateArticlesList builds the articles
\* list anew; the multi-select fields are left alone. The configuration
\* view is handed fm.Feeds as well, whatever mode it is in
FetchComplete(c) ==
  /\ cmd[c] \in {"ok", "fail"}
  /\ loading' = FALSE
  /\ IF cmd[c] = "fail"
       THEN /\ errorMessage' = <<[err |-> "fetch", of |-> 0]>>
            /\ statusMessage' = "Failed to load feeds"
            /\ UNCHANGED <<mFeeds, feedsIndex, currentFeed, articlesItems, articlesIndex>>
            /\ UNCHANGED <<cvFeeds, cursor>>
       ELSE /\ errorMessage' = <<>>
            /\ statusMessage' = "Loaded from cache"
            /\ mFeeds' = uiFeeds(Feeds)
            /\ feedsIndex' = 0
            /\ currentFeed' = uiFeeds(Feeds)[1]
            /\ articlesItems' = Len(Filtered(heap[Articles], uiFeeds(Feeds)[1]))
            /\ articlesIndex' = 0
            /\ cvFeeds' = UpdateFeeds(Feeds, cursor).feeds
            /\ cursor' = UpdateFeeds(Feeds, cursor).cursor
  /\ cmd' = [cmd EXCEPT ![c] = "none"]
  /\ UNCHANGED <<feedVars, Enabled, liveResponseCh, nSess, prod, nLines, buffer, scanErr, sending, respCh, respClosed, drains, pulls, askLLMResult, currentView, submitting, contentLines, askRet, modelsRet, cmdData, netCalls, produced, received, multiSelectMode, selectedArticleIndexes, panicked, mode>>

\* the UI is up, the configuration may have the client disabled
InitLLM == InitFeed /\ ~cacheFile.exists /\ InitAsk /\ Enabled \in BOOLEAN

(* ---------------------- ui/app.go: the two lists ----------------------- *)
\* "l", "right" or "enter" in the feeds view: the articles of the selected
\* feed are listed and shown
FeedsEnter ==
  /\ currentView = "feeds" /\ ~panicked
  /\ currentView' = "articles"
  /\ currentFeed' = mFeeds[feedsIndex + 1]
  /\ articlesItems' = Len(Filtered(heap[Articles], mFeeds[feedsIndex + 1]))
  /\ articlesIndex' = 0
  /\ UNCHANGED <<feedVars, Enabled, liveResponseCh, nSess, prod, nLines, buffer, scanErr, sending, respCh, respClosed, drains, pulls, askLLMResult, errorMessage, statusMessage, submitting, contentLines, askRet, modelsRet, loading, cmd, cmdData, netCalls, produced, received, mFeeds, feedsIndex, multiSelectMode, selectedArticleIndexes, panicked, cfgVars>>

\* "j"/"down" and "k"/"up" in the feeds view: the selection moves by d when
\* it can, and the articles list is built for the feed now selected
FeedsMove(d) ==
  /\ currentView = "feeds" /\ ~panicked
  /\ feedsIndex + d \in 0..(Len(mFeeds) - 1)
  /\ feedsIndex' = feedsIndex + d
  /\ currentFeed' = mFeeds[feedsIndex + d + 1]
  /\ articlesItems' = Len(Filtered(heap[Articles], mFeeds[feedsIndex + d + 1]))
  /\ articlesIndex' = 0
  /\ UNCHANGED <<feedVars, llmVars, mFeeds, multiSelectMode, selectedArticleIndexes, panicked, cfgVars>>

\* "j"/"down" and "k"/"up" in the articles view
ArticlesMove(d) ==
  /\ currentView = "articles" /\ ~panicked
  /\ articlesIndex + d \in 0..(articlesItems - 1)
  /\ articlesIndex' = articlesIndex + d
  /\ UNCHANGED <<feedVars, llmVars, mFeeds, feedsIndex, currentFeed, articlesItems, multiSelectMode, selectedArticleIndexes, panicked, cfgVars>>

\* "tab", "h" or "left": back from the articles to the feeds, from an article
\* to the articles
KeyTab ==
  /\ currentView \in {"articles", "detail"} /\ ~panicked
  /\ currentView' = IF currentView = "articles" THEN "feeds" ELSE "articles"
  /\ UNCHANGED <<feedVars, Enabled, liveResponseCh, nSess, prod, nLines, buffer, scanErr, sending, respCh, respClosed, drains, pulls, askLLMResult, errorMessage, statusMessage, submitting, contentLines, askRet, modelsRet, loading, cmd, cmdData, netCalls, produced, received, selVars, cfgVars>>

\* "v" in the articles view switches multi-select mode on, with an empty
\* selection, or off
KeyV ==
  /\ currentView = "articles" /\ ~panicked
  /\ multiSelectMode' = ~multiSelectMode
  /\ selectedArticleIndexes' = {}
  /\ statusMessage' = IF multiSelectMode THEN "" ELSE "multi-select"
  /\ UNCHANGED <<feedVars, Enabled, liveResponseCh, nSess, prod, nLines, buffer, scanErr, sending, respCh, respClosed, drains, pulls, askLLMResult, errorMessage, currentView, submitting, contentLines, askRet, modelsRet, loading, cmd, cmdData, netCalls, produced, received, mFeeds, feedsIndex, currentFeed, articlesItems, articlesIndex, panicked, cfgVars>>

\* " " in multi-select mode: idx := m.articlesList.Index() joins or leaves
\* the selection
KeySpace ==
  /\ currentView = "articles" /\ multiSelectMode /\ ~panicked
  /\ selectedArticleIndexes' =
       IF articlesIndex \in selectedArticleIndexes
         THEN selectedArticleIndexes \ {articlesIndex}
         ELSE selectedArticleIndexes \cup {articlesIndex}
  /\ UNCHANGED <<feedVars, llmVars, mFeeds, feedsIndex, currentFeed, articlesItems, articlesIndex, multiSelectMode, panicked, cfgVars>>

\* m.articlesList.Items()[idx] for every selected idx: an index that is not
\* below len(Items()) is a runtime panic
InRange(sel, n) == \A idx \in sel : idx < n

\* "enter" in the articles view: with a selection in multi-select mode the
\* prompt is built from the selected items and the Ask LLM view is shown;
\* otherwise the article under the cursor is shown
ArticlesEnter ==
  /\ currentView = "articles" /\ ~panicked
  /\ IF multiSelectMode /\ selectedArticleIndexes # {}
       THEN IF InRange(selectedArticleIndexes, articlesItems)
              THEN /\ currentView' = "ask"
                   /\ multiSelectMode' = FALSE
                   /\ selectedArticleIndexes' = {}
                   /\ statusMessage' = ""
                   /\ UNCHANGED panicked
              ELSE /\ panicked' = TRUE
                   /\ UNCHANGED <<currentView, multiSelectMode, selectedArticleIndexes, statusMessage>>
       ELSE /\ currentView' = "detail"
            /\ UNCHANGED <<multiSelectMode, selectedArticleIndexes, statusMessage, panicked>>
  /\ UNCHANGED <<feedVars, Enabled, liveResponseCh, nSess, prod, nLines, buffer, scanErr, sending, respCh, respClosed, drains, pulls, askLLMResult, errorMessage, submitting, contentLines, askRet, modelsRet, loading, cmd, cmdData, netCalls, produced, received, mFeeds, feedsIndex, currentFeed, articlesItems, articlesIndex, cfgVars>>

\* "a" in the articles view or on an article: with a selection in
\* multi-select mode the prompt is built from the selected items; a new
\* AskLLMView is shown
ArticlesAsk ==
  /\ currentView \in {"articles", "detail"} /\ ~panicked
  /\ IF currentView = "articles" /\ multiSelectMode /\ selectedArticleIndexes # {}
       THEN IF InRange(selectedArticleIndexes, articlesItems)
              THEN /\ currentView' = "ask"
                   /\ multiSelectMode' = FALSE
                   /\ selectedArticleIndexes' = {}
                   /\ UNCHANGED panicked
              ELSE /\ panicked' = TRUE
                   /\ UNCHANGED <<currentView, multiSelectMode, selectedArticleIndexes>>
       ELSE /\ currentView' = "ask"
            /\ UNCHANGED <<multiSelectMode, selectedArticleIndexes, panicked>>
  /\ submitting' = IF panicked' THEN submitting ELSE FALSE
  /\ contentLines' = IF panicked' THEN contentLines ELSE Render("ask", askLLMResult, FALSE)
  /\ UNCHANGED <<feedVars, Enabled, liveResponseCh, nSess, prod, nLines, buffer, scanErr, sending, respCh, respClosed, drains, pulls, askLLMResult, errorMessage, statusMessage, askRet, modelsRet, loading, cmd, cmdData, netCalls, produced, received, mFeeds, feedsIndex, currentFeed, articlesItems, articlesIndex, cfgVars>>

\* the keys of the two lists, with one refresh at a time
NextSel ==
  \/ FeedsEnter
  \/ \E d \in {-1, 1} : FeedsMove(d)
  \/ \E d \in {-1, 1} : ArticlesMove(d)
  \/ KeyTab
  \/ KeyV
  \/ KeySpace
  \/ ArticlesEnter
  \/ ArticlesAsk
  \/ (~panicked /\ OpenAsk)
  \/ (~panicked /\ Cancel)
  \/ (~panicked /\ KeyR(1))
  \/ \E cfg \in Configs : CmdLoadConfig(1, cfg)
  \/ \E ok \in BOOLEAN : CmdRefreshFeeds(1, ok)
  \/ CmdAssign(1)
  \/ CmdMarshal(1)
  \/ \E ok \in BOOLEAN : CmdWrite(1, ok)
  \/ (~panicked /\ FetchComplete(1))

SpecSel == InitLLM /\ [][NextSel]_vars


(* ------------------------ the configuration view ----------------------- *)
\* The key "c" outside the Ask LLM and configuration views: the view is
\* shown and handed fm.Feeds; its mode is the one it was left in
KeyC ==
  /\ currentView \notin {"ask", "config"} /\ ~panicked
  /\ currentView' = "config"
  /\ cvFeeds' = UpdateFeeds(Feeds, cursor).feeds
  /\ cursor' = UpdateFeeds(Feeds, cursor).cursor
  /\ UNCHANGED <<feedVars, Enabled, liveResponseCh, nSess, prod, nLines, buffer, scanErr, sending, respCh, respClosed, drains, pulls, askLLMResult, errorMessage, statusMessage, submitting, contentLines, askRet, modelsRet, loading, cmd, cmdData, netCalls, produced, received, selVars, mode>>

\* ConfigView.Handle in mode "view". "e" reads cv.feeds[cv.cursor] to fill
\* the inputs, which panics when the cursor is no index of the list; "q"
\* returns exitConfigMsg and Update shows the feeds view
HandleView(key) ==
  /\ currentView = "config" /\ mode = "view" /\ ~panicked
  /\ CASE key = "up" ->
            /\ cursor' = IF cursor > 0 THEN cursor - 1 ELSE cursor
            /\ UNCHANGED <<mode, currentView, panicked>>
       [] key = "down" ->
            /\ cursor' = IF cursor < Len(cvFeeds) - 1 THEN cursor + 1 ELSE cursor
            /\ UNCHANGED <<mode, currentView, panicked>>
       [] key = "a" ->
            /\ mode' = "add"
            /\ UNCHANGED <<cursor, currentView, panicked>>
       [] key = "e" ->
            /\ IF Len(cvFeeds) > 0
                 THEN IF cursor \in 0..(Len(cvFeeds) - 1)
                        THEN mode' = "edit" /\ UNCHANGED panicked
                        ELSE panicked' = TRUE /\ UNCHANGED mode
                 ELSE UNCHANGED <<mode, panicked>>
            /\ UNCHANGED <<cursor, currentView>>
       [] key = "d" ->
            /\ mode' = IF Len(cvFeeds) > 0 THEN "delete" ELSE mode
            /\ UNCHANGED <<cursor, currentView, panicked>>
       [] key = "q" ->
            /\ currentView' = "feeds"
            /\ UNCHANGED <<cursor, mode, panicked>>
  /\ UNCHANGED cvFeeds
  /\ UNCHANGED <<feedVars, Enabled, liveResponseCh, nSess, prod, nLines, buffer, scanErr, sending, respCh, respClosed, drains, pulls, askLLMResult, errorMessage, statusMessage, submitting, contentLines, askRet, modelsRet, loading, cmd, cmdData, netCalls, produced, received, mFeeds, feedsIndex, currentFeed, articlesItems, articlesIndex, multiSelectMode, selectedArticleIndexes>>

\* ConfigView.Handle in the modes "add" and "edit", f being what the inputs
\* hold. "enter" with an empty name or URL shows a message and changes
\* nothing; otherwise "add" appends f and puts the cursor on it, "edit"
\* assigns cv.feeds[cv.cursor] = f with no look at the length of the list,
\* and both go back to mode "view" and return the command saveConfig
HandleEdit(key, f) ==
  /\ currentView = "config" /\ mode \in {"add", "edit"} /\ ~panicked
  /\ CASE key = "enter" /\ (f.Name = "" \/ f.URL = "") ->
            UNCHANGED <<cvFeeds, cursor, mode, panicked>>
       [] key = "enter" /\ f.Name # "" /\ f.URL # "" /\ mode = "add" ->
            /\ Len(cvFeeds) < MaxConfigFeeds
            /\ cvFeeds' = Append(cvFeeds, f)
            /\ cursor' = Len(cvFeeds)
            /\ mode' = "view"
            /\ UNCHANGED panicked
       [] key = "enter" /\ f.Name # "" /\ f.URL # "" /\ mode = "edit" ->
            IF cursor \in 0..(Len(cvFeeds) - 1)
              THEN /\ cvFeeds' = [cvFeeds EXCEPT ![cursor + 1] = f]
                   /\ mode' = "view"
                   /\ UNCHANGED <<cursor, panicked>>
              ELSE /\ panicked' = TRUE
                   /\ UNCHANGED <<cvFeeds, cursor, mode>>
       [] key = "esc" ->
            /\ mode' = "view"
            /\ UNCHANGED <<cvFeeds, cursor, panicked>>
  /\ UNCHANGED <<feedVars, llmVars, mFeeds, feedsIndex, currentFeed, articlesItems, articlesIndex, multiSelectMode, selectedArticleIndexes>>

\* ConfigView.Handle in mode "delete": "y" removes the entry under the
\* cursor when the cursor is an index of the list, moves the cursor back
\* onto the list, goes to mode "view" and returns the command saveConfig;
\* with the cursor off the list it does nothing. "n" goes to mode "view"
HandleDelete(key) ==
  /\ currentView = "config" /\ mode = "delete" /\ ~panicked
  /\ CASE key = "y" ->
            IF cursor >= 0 /\ cursor < Len(cvFeeds)
              THEN /\ cvFeeds' = SubSeq(cvFeeds, 1, cursor) \o SubSeq(cvFeeds, cursor + 2, Len(cvFeeds))
                   /\ cursor' = IF Len(cvFeeds) - 1 = 0 THEN 0
                                ELSE IF cursor >= Len(cvFeeds) - 1 THEN Len(cvFeeds) - 2
                                ELSE cursor
                   /\ mode' = "view"
              ELSE UNCHANGED <<cvFeeds, cursor, mode>>
       [] key = "n" ->
            /\ mode' = "view"
            /\ UNCHANGED <<cvFeeds, cursor>>
  /\ UNCHANGED <<feedVars, llmVars, selVars>>

\* the configuration view with one refresh at a time; the configuration
\* file may hold no feed at all
NextCfg ==
  \/ KeyC
  \/ \E key \in {"up", "down", "a", "e", "d", "q"} : HandleView(key)
  \/ \E key \in {"enter", "esc"}, f \in {FeedB, FeedAll} : HandleEdit(key, f)
  \/ \E key \in {"y", "n"} : HandleDelete(key)
  \/ (~panicked /\ KeyR(1))
  \/ \E ok \in BOOLEAN : (~panicked /\ SaveConfigComplete(1, ok))
  \/ \E cfg \in Configs \cup {<<>>} : CmdLoadConfig(1, cfg)
  \/ \E ok \in BOOLEAN : CmdRefreshFeeds(1, ok)
  \/ CmdAssign(1)
  \/ CmdMarshal(1)
  \/ \E ok \in BOOLEAN : CmdWrite(1, ok)
  \/ (~panicked /\ FetchComplete(1))

SpecCfg == InitLLM /\ [][NextCfg]_vars


\* the refreshes the user and the configuration view ask for
NextUI ==
  \/ \E c \in Commands : KeyR(c)
  \/ \E c \in Commands, ok \in BOOLEAN : SaveConfigComplete(c, ok)
  \/ \E c \in Commands, cfg \in Configs : CmdLoadConfig(c, cfg)
  \/ \E c \in Commands, ok \in BOOLEAN : CmdRefreshFeeds(c, ok)
  \/ \E c \in Commands : CmdAssign(c)
  \/ \E c \in Commands : CmdMarshal(c)
  \/ \E c \in Commands, ok \in BOOLEAN : CmdWrite(c, ok)
  \/ \E c \in Commands : FetchComplete(c)
  \/ OpenAsk
  \/ Cancel

SpecUI == InitLLM /\ [][NextUI]_vars

NextLLM ==
  \/ \E r \in Replies : CallAskOllama(r)
  \/ AskOllamaReturned
  \/ \E r \in TagReplies : CallGetAvailableModels(r)
  \/ GetAvailableModelsReturned
  \/ \E s \in Sessions : ProdStart(s)
  \/ \E s \in Sessions, r \in {"ok", "request"} : ProdPost(s, r)
  \/ \E s \in Sessions, k \in LineKinds : ProdLine(s, k)
  \/ \E s \in Sessions : ProdSend(s)
  \/ \E s \in Sessions : ProdClose(s)
  \/ OpenAsk
  \/ Submit
  \/ Cancel
  \/ \E s \in Sessions : DrainRecv(s)
  \/ \E s \in Sessions : DrainEnd(s)
  \/ \E ch \in Sessions : PullRecv(Pull(ch))
  \/ \E ch \in Sessions : \E m \in StreamMsgs(ch) : HandleStreamMsg([ch |-> ch, msg |-> <<m>>])

SpecLLM == InitLLM /\ [][NextLLM]_vars

\* one step of the goroutine of AskOllamaStreaming for prompt s, of a drain
\* goroutine, of a pull command, and of Update on a pull command's message
ProducerStep(s) ==
  \/ ProdStart(s)
  \/ \E r \in {"ok", "request"} : ProdPost(s, r)
  \/ \E k \in LineKinds : ProdLine(s, k)
  \/ ProdSend(s)
  \/ ProdClose(s)
DrainStep(s) == DrainRecv(s) \/ DrainEnd(s)
PullStep(ch) == PullRecv(Pull(ch))
HandleStep(ch) == \E m \in StreamMsgs(ch) : HandleStreamMsg([ch |-> ch, msg |-> <<m>>])

\* The behaviours followed for superseded sessions: those of SpecLLM in which
\* no Scan returns the line with done while the scanner holds a read error.
\* That line adds one error chunk after the last chunk of a response and
\* nothing to how a superseded channel is received from
PlainKinds == LineKinds \ {"doneErr"}
NextLive ==
  \/ \E r \in Replies : CallAskOllama(r)
  \/ AskOllamaReturned
  \/ \E r \in TagReplies : CallGetAvailableModels(r)
  \/ GetAvailableModelsReturned
  \/ \E s \in Sessions : ProdStart(s)
  \/ \E s \in Sessions, r \in {"ok", "request"} : ProdPost(s, r)
  \/ \E s \in Sessions, k \in PlainKinds : ProdLine(s, k)
  \/ \E s \in Sessions : ProdSend(s)
  \/ \E s \in Sessions : ProdClose(s)
  \/ OpenAsk
  \/ Submit
  \/ Cancel
  \/ \E s \in Sessions : DrainRecv(s)
  \/ \E s \in Sessions : DrainEnd(s)
  \/ \E ch \in Sessions : PullRecv(Pull(ch))
  \/ \E ch \in Sessions : \E m \in StreamMsgs(ch) : HandleStreamMsg([ch |-> ch, msg |-> <<m>>])

\* the Go scheduler does not leave runnable goroutines waiting for ever: while
\* a producer or a drain goroutine can take a step, one of them does. The
\* user's keys and the UI's commands are under no such promise
LiveLLM ==
  /\ InitLLM /\ [][NextLive]_vars
  /\ WF_vars(\E s \in Sessions : ProducerStep(s) \/ DrainStep(s))

\* The behaviours in which one prompt is submitted and no second one: every
\* outcome of the response, and the user entering and leaving the view
NextAbandon ==
  \/ \E s \in Sessions : ProdStart(s)
  \/ \E s \in Sessions, r \in {"ok", "request"} : ProdPost(s, r)
  \/ \E s \in Sessions, k \in LineKinds : ProdLine(s, k)
  \/ \E s \in Sessions : ProdSend(s)
  \/ \E s \in Sessions : ProdClose(s)
  \/ OpenAsk
  \/ (nSess = 0 /\ Submit)
  \/ Cancel
  \/ \E ch \in Sessions : PullRecv(Pull(ch))
  \/ \E ch \in Sessions : \E m \in StreamMsgs(ch) : HandleStreamMsg([ch |-> ch, msg |-> <<m>>])

\* Bubble Tea runs every command in a goroutine of its own and its event loop
\* hands every message to Update: while a producer, a pull command or the
\* handling of a pull command's message can take a step, one of them does
GoroutineStep ==
  \E s \in Sessions : ProducerStep(s) \/ PullStep(s) \/ HandleStep(s)
LiveUI == InitLLM /\ [][NextAbandon]_vars /\ WF_vars(GoroutineStep)

(* ============================== claims ================================= *)
Installed == {"unlock", "save", "rlock", "marshal", "open", "write", "done"}
Returned0 == pc = "done"
SomeFailed == \E i \in DOMAIN task : task[i] = "fail"
SomeOk == \E i \in DOMAIN task : task[i] = "ok"

\* the records of the successful sources, in the order their tasks delivered them
SentRecords == Concat([j \in 1..Len(sendOrder) |-> got[sendOrder[j]]])
\* the same records, source after source in the order of fm.Feeds
ConfigRecords == Concat([i \in 1..Len(task) |-> got[i]])
SameRecords(s, t) == Len(s) = Len(t) /\ Range(s) = Range(t)
Store == heap[Articles]

\* two record sequences are equal field by field and in order; two time
\* values are equal when they are the same instant (time.Time.Equal)
Plain(a) == [a EXCEPT !.Published = Time(@.wall, FALSE)]
SameValues(s, t) == Len(s) = Len(t) /\ \A i \in 1..Len(s) : Plain(s[i]) = Plain(t[i])

\* C1 (as claimed): when RefreshFeeds returns after one or more sources
\* failed, the store holds exactly the records of the successful sources and
\* the returned error is non-nil.
C1_PartialFailureInstalls ==
  (Returned0 /\ SomeFailed) => (ret # <<>> /\ SameRecords(Store, SentRecords))

\* C2: when RefreshFeeds returns and no fetch task failed, it returns nil and
\* the store holds every record of every fetched source exactly once, and no
\* record that was in the store before the refresh.
C2_NoFailureInstallsAll ==
  (Returned0 /\ ~SomeFailed) =>
     /\ ret = <<>>
     /\ SameRecords(Store, ConfigRecords)
     /\ \A i, j \in 1..Len(Store) : i # j => Store[i] # Store[j]
     /\ Range(Store) \cap Range(before) = {}
C2_Witness ==
  /\ Returned0 /\ ~SomeFailed /\ before # <<>>
  /\ Len(sendOrder) = 2 /\ Len(Store) >= 3

\* C3 (as claimed): the installed sequence lists the per-source blocks in the
\* order of fm.Feeds, whatever the order in which the fetch tasks finish.
C3_ConfigOrder ==
  (pc \in Installed /\ ~SomeFailed) => Store = ConfigRecords
\* C3 (amended): the installed sequence lists the per-source blocks in the
\* order in which the fetch tasks delivered them on articleCh; inside a block
\* the records keep the order fetchFeed returned, with no other source's
\* record in between.
C3_DeliveryOrder ==
  (pc \in Installed /\ ~SomeFailed) => Store = SentRecords
C3_Witness ==
  /\ pc \in Installed /\ ~SomeFailed
  /\ sendOrder = <<3, 2>> /\ Len(got[2]) = MaxItems /\ Len(got[3]) = MaxItems
  /\ Store # ConfigRecords

\* C4: a feed with an empty URL never has a fetch task, contributes no record
\* to the new or the installed set and never appears in an error of the call.
C4_EmptyLocatorSkipped ==
  \A i \in DOMAIN task : Feeds[i].URL = "" =>
     /\ task[i] = "skip" /\ got[i] = <<>>
     /\ i \notin Range(sendOrder) /\ i \notin Range(failOrder)
     /\ \A a \in Range(Store) \cup Range(heap[RunArr(nStarted)]) \cup Range(Concat(articleCh)) :
           a.gen = nStarted => a.FeedName # Feeds[i].Name
     /\ \A e \in Range(errorCh) \cup Range(errors) \cup Range(ret) : e.name # Feeds[i].Name
C4_Witness ==
  /\ Returned0 /\ SomeFailed /\ SomeOk
  /\ \E i \in DOMAIN task : Feeds[i].URL = "" /\ task[i] = "skip"

\* C5: when one or more fetch tasks failed, RefreshFeeds returns the error of
\* the task that reported its failure first, wrapped with that feed's name,
\* and never an error naming a feed that succeeded or was skipped.
C5_FirstErrorReturned ==
  (Returned0 /\ SomeFailed) =>
     /\ ret = <<FetchError(Feeds[failOrder[1]])>>
     /\ task[failOrder[1]] = "fail"
     /\ \A i \in DOMAIN task : task[i] \in {"ok", "skip"} => ret[1].name # Feeds[i].Name
C5_Witness ==
  /\ Returned0 /\ failOrder = <<3, 2>> /\ ret = <<FetchError(FeedB)>>

\* C6 (as claimed): a RefreshFeeds call in which at least one source was
\* fetched has entered saveCache when it returns, whether or not another
\* source failed, and what it returns depends on the fetches only.
C6_SaveAfterAnySuccess ==
  (Returned0 /\ SomeOk) =>
     /\ saved
     /\ ret = IF SomeFailed THEN <<FetchError(Feeds[failOrder[1]])>> ELSE <<>>

\* C7: the sequence GetArticles returns is one of the complete sequences the
\* store held during the call: the one before a concurrent replacement or the
\* one after it, never a mix of the two.
C7_SnapshotNotTorn ==
  \A k \in Readers : rdPc[k] = "held" => heap[rdRes[k]] \in seen[k]
C7_Witness ==
  \E k \in Readers :
     /\ rdPc[k] = "held" /\ pc = "unlock"
     /\ heap[rdRes[k]] = before /\ Store # before /\ before # <<>>

\* C8: a returned sequence never shares its array with the store; sorting it
\* in place leaves the store as it was, and no step of RefreshFeeds or of
\* saveCache changes a sequence GetArticles has returned.
C8_NoAlias ==
  \A k \in Readers : rdPc[k] \in {"held", "sorted"} => rdRes[k] # Articles
C9_VisibleIsLastCompleted ==
  /\ Returned0 => SameRecords(Store, SentRecords)
  /\ pc \in {"recvArticles", "recvErrors", "lock", "assign"} => Store = before
  /\ (pc \in {"init", "idle"} /\ cacheFile.exists /\ loadErr = "") => Store = Unmarshal(cacheFile.data).val

\* C10 (as claimed): after the process stopped inside saveCache, loadCache
\* yields either the record set of the image that was valid before the save
\* or the record set being saved.
C10_CrashSafeSave ==
  (recovered /\ prevImage.valid /\ loadErr # "read") =>
     \E r \in {prevImage.val, lostStore} : SameValues(Store, r)

\* C11: NewFeedManager always returns a manager. With no cache file loadCache
\* returns nil and the store is empty; with a file that cannot be read or
\* parsed the store is left empty and the error is only reported as a warning.
C11_LoadTolerant ==
  /\ pc \in {"boot", "crashed"} => ENABLED (\E rd \in BOOLEAN : NewFeedManager(rd))
  /\ pc = "init" =>
       /\ ~cacheFile.exists => (loadErr = "" /\ Store = <<>>)
       /\ (cacheFile.exists /\ ~Unmarshal(cacheFile.data).ok) => (loadErr # "" /\ Store = <<>>)
       /\ loadErr # "" => (Articles = NilArr /\ Store = <<>>)
C11_Witness ==
  /\ pc = "init" /\ cacheFile.exists /\ loadErr = "parse"
  /\ Store = <<>> /\ lostStore # <<>>

\* C12: when saveCache has written a non-empty store completely and a fresh
\* manager then reads the file, the loaded records equal the saved ones field
\* by field and in order, times compared as instants; the same holds of a
\* summary map taken through saveSummaries and loadSummaries.
SameSummaries(m, n) ==
  /\ DOMAIN m = DOMAIN n
  /\ \A k \in DOMAIN m : [m[k] EXCEPT !.Generated = Time(@.wall, FALSE)] =
                          [n[k] EXCEPT !.Generated = Time(@.wall, FALSE)]
C13_LoadBeforeFetch ==
  /\ pc \in {"boot", "crashed"} => (~loaded /\ task = <<>>)
  /\ Up => loaded
  /\ \A i \in DOMAIN task : task[i] # "skip" => (loaded /\ requested)
  /\ (pc \in {"init", "idle"} /\ Articles = LoadArr) => Store = Unmarshal(cacheFile.data).val
C13_Witness ==
  /\ \E i \in DOMAIN task : task[i] = "running"
  /\ Articles = LoadArr /\ Store = CachedImage /\ requested

(* --------------------- claims on the streamed answers ------------------ *)
\* the text the producer of prompt s has sent so far, chunk after chunk
Contents(s) == Concat([i \in 1..Len(produced[s]) |-> produced[s][i].Content])
IsPrefix(a, b) == Len(a) <= Len(b) /\ SubSeq(b, 1, Len(a)) = a
Superseded(s) == prod[s] # "none" /\ liveResponseCh # s

\* C14 (as claimed): the answer accumulated in askLLMResult holds text of the
\* prompt submitted last only, never a chunk produced for a prior prompt.
C14_NoStaleContent ==
  \A i \in 1..Len(askLLMResult) : askLLMResult[i][1] = liveResponseCh

\* C15: once a session is superseded, its channel is received from until it is
\* closed, so its producer goroutine ends (it is never left blocked on a
\* send) and the drain goroutine ends with it; the drain goroutine stops only
\* at a closed and empty channel.
C15_DrainUntilClosed ==
  /\ (\E s \in Sessions : Superseded(s)) ~>
        (\A s \in Sessions : Superseded(s) => (prod[s] = "closed" /\ s \notin drains))
  /\ [][\A s \in Sessions : (s \in drains /\ s \notin drains') =>
                               (respClosed[s] /\ respCh[s] = <<>>)]_vars
C15_Witness ==
  /\ Superseded(1) /\ prod[1] = "closed" /\ 1 \notin drains
  /\ Len(produced[1]) > ChanCap /\ received[1] = produced[1]
  /\ BagIn(Pull(1), pulls)

\* C16 (as claimed): at most one pull command is in flight, and no two pull
\* commands receive from the same channel.
C16_OnePull ==
  /\ BagCardinality(pulls) <= 1
  /\ \A s \in Sessions : CopiesIn(Pull(s), pulls) <= 1

\* C17 (as claimed): the error shown is only ever set from a chunk of the
\* session that is current when Update handles it.
C17_NoStaleError ==
  [][errorMessage' # errorMessage => errorMessage'[1].of = liveResponseCh']_vars

\* C18 (as claimed): the accumulated answer is a prefix of the text the
\* producer of the current session has sent so far.
C18_InOrder ==
  liveResponseCh # 0 => IsPrefix(askLLMResult, Contents(liveResponseCh))

\* C19: with a disabled client no HTTP request is made for a streamed prompt;
\* the only chunk ever sent on the channel, and so the first one received
\* from it, has Done set and carries the disabled error, and the channel is
\* closed after it.
DisabledChunk(s) == Chunk(<<>>, TRUE, "disabled", s)
C19_DisabledStream ==
  ~Enabled => \A s \in Sessions :
     /\ netCalls[s] = 0
     /\ IsPrefix(produced[s], <<DisabledChunk(s)>>)
     /\ IsPrefix(received[s], <<DisabledChunk(s)>>)
     /\ respClosed[s] => produced[s] = <<DisabledChunk(s)>>
     /\ \A p \in BagToSet(pulls) : p.msg # <<>> => p.msg[1].done
C19_Witness ==
  /\ ~Enabled /\ respClosed[1] /\ received[1] = <<DisabledChunk(1)>>
  /\ errorMessage = <<[err |-> "disabled", of |-> 1]>>

\* C20: with a disabled client AskOllama returns the empty answer and the
\* disabled error, and makes no HTTP request.
C20_DisabledAsk ==
  (~Enabled /\ askRet # <<>>) =>
     (askRet[1].text = <<>> /\ askRet[1].err = "disabled" /\ netCalls[0] = 0)
C20_Witness ==
  ~Enabled /\ askRet # <<>> /\ askRet[1].err = "disabled"

\* the session whose error chunk Update handled last
Failed(s) == errorMessage # <<>> /\ errorMessage[1].of = s
\* the pull commands on channel s that have not received yet
Waiting(s) == CopiesIn(Pull(s), pulls)

\* C21: the Update that handles a message with an error returns no command;
\* the error chunk is the last thing its producer sent, and the producer is at
\* its deferred close, which cannot block. A pull command that receives from
\* that channel afterwards gets a message with done set, and once the channel
\* is closed no pull command on it has to wait.
C21_ErrorEndsSession ==
  /\ [](\A s \in Sessions : Failed(s) =>
          /\ prod[s] \in {"ret", "closed"} /\ respCh[s] = <<>>
          /\ produced[s][Len(produced[s])].Err # ""
          /\ (respClosed[s] /\ Waiting(s) > 0) => ENABLED PullRecv(Pull(s)))
  /\ [][/\ (\E p \in BagToSet(pulls) :
              /\ p.msg # <<>> /\ p.msg[1].err # ""
              /\ CopiesIn(p, pulls') < CopiesIn(p, pulls)) =>
            \A s \in Sessions : Waiting(s)' <= Waiting(s)
        /\ \A s \in Sessions : (Failed(s) /\ Waiting(s)' < Waiting(s)) =>
              \A p \in BagToSet(pulls') :
                 (p.ch = s /\ CopiesIn(p, pulls') > CopiesIn(p, pulls)) => p.msg[1].done]_vars
C21_Witness ==
  /\ Failed(2) /\ respClosed[2] /\ Waiting(2) = 0
  /\ \E p \in BagToSet(pulls) : p.ch = 2 /\ p.msg = <<StreamMsg(2, FALSE, <<>>)>>

\* a message of a chunk with the end-of-stream marker and no error
DoneMsg(m) == m.done /\ m.err = ""
Last(q) == q[Len(q)]

\* C22 (as claimed): a chunk with Done set is the last chunk its producer
\* sends, and the producer returns after it. The pull command that receives
\* it hands its content to Update, which appends the content to the answer
\* and, in the same step, shows "LLM answered" and returns no command; "LLM
\* answered" is shown by no other step.
C22_DoneDelivered ==
  /\ [](\A s \in Sessions : \A i \in 1..Len(produced[s]) :
          produced[s][i].Done =>
             (i = Len(produced[s]) /\ sending[s] = <<>> /\ prod[s] \in {"ret", "closed"}))
  /\ [][/\ \A s \in Sessions :
             (received'[s] # received[s] /\ pulls' # pulls /\
              Last(received'[s]).Done /\ Last(received'[s]).Err = "") =>
                \E p \in BagToSet(pulls') :
                   /\ CopiesIn(p, pulls') > CopiesIn(p, pulls)
                   /\ p.ch = s /\ DoneMsg(p.msg[1])
                   /\ p.msg[1].content = Last(received'[s]).Content
        /\ \A p \in BagToSet(pulls) :
             (p.msg # <<>> /\ DoneMsg(p.msg[1]) /\ CopiesIn(p, pulls') < CopiesIn(p, pulls)) =>
                /\ askLLMResult' = askLLMResult \o p.msg[1].content
                /\ statusMessage' = "LLM answered"
                /\ BagCardinality(pulls') < BagCardinality(pulls)
                /\ \A s \in Sessions : Waiting(s)' <= Waiting(s)
        /\ (statusMessage' = "LLM answered" /\ statusMessage # "LLM answered") =>
             \E p \in BagToSet(pulls) :
                p.msg # <<>> /\ DoneMsg(p.msg[1]) /\ CopiesIn(p, pulls') < CopiesIn(p, pulls)]_vars

\* the producer of the current session has returned and closed its channel
LiveClosed == liveResponseCh # 0 /\ prod[liveResponseCh] = "closed"
\* the user left the Ask LLM view while that producer had not ended
Abandoned == liveResponseCh # 0 /\ currentView = "feeds" /\ ~LiveClosed

\* C23: when the user leaves the view with Esc while the producer of the
\* current session is still running, the channel is received from until the
\* producer has sent its last chunk: the producer is not left blocked on a
\* send, it returns and closes the channel. (Should a new prompt be submitted
\* meanwhile, the producer that ends is the new session's; the superseded one
\* is the matter of C15.)
C23_AbandonedDrained == Abandoned ~> LiveClosed
C23_Witness ==
  /\ liveResponseCh = 1 /\ currentView = "feeds" /\ nSess = 1
  /\ askLLMResult = Text(1, 1) /\ prod[1] = "send" /\ sending[1][1].Done

\* C29 (as claimed): once the user has left the Ask LLM view with Esc the
\* answer stays empty until a new prompt is submitted: no chunk is appended
\* while the feeds view is shown, and the view shows nothing when entered again.
C29_CancelClears ==
  /\ currentView = "feeds" => askLLMResult = <<>>
  /\ (currentView = "ask" /\ ~submitting /\ askLLMResult = <<>>) => ~contentLines

\* the partial texts the producer of prompt s has read from the response body
Fed(s) == Joined(s, 1, nLines[s])
\* the text of the chunk that producer is about to send
Pending(s) == IF sending[s] = <<>> THEN <<>> ELSE sending[s][1].Content
NoError(s) == \A i \in 1..Len(produced[s]) : produced[s][i].Err = ""

Terminal(c) == c.Err # "" \/ c.Done
Terminals(q) == {i \in 1..Len(q) : Terminal(q[i])}

\* C30 (as claimed): on every path of the producer at most one terminal chunk
\* is sent and it is the last chunk: after it the producer has nothing to
\* send and is at its deferred close. An error chunk is never dropped: the
\* producer returns only when it has sent what it had to send.
C30_OneTerminal ==
  \A s \in Sessions :
     /\ Cardinality(Terminals(produced[s])) <= 1
     /\ \A i \in Terminals(produced[s]) :
           i = Len(produced[s]) /\ sending[s] = <<>> /\ prod[s] \in {"ret", "closed"}
     /\ prod[s] \in {"ret", "closed"} => sending[s] = <<>>
     /\ respClosed[s] => prod[s] = "closed"


\* C27 (as claimed): while the client is disabled no operation of the
\* generation client makes an HTTP request, and GetAvailableModels returns
\* an error without making one.
C27_NoIODisabled ==
  ~Enabled =>
     /\ \A s \in Sessions \cup {0} : netCalls[s] = 0
     /\ modelsRet # <<>> => (modelsRet[1].err # "" /\ modelsRet[1].net = 0)


\* the records fetchFeed has returned to the tasks of the call, and the
\* records in the store
Fetched == UNION {Range(got[i]) : i \in DOMAIN got}

\* C25: a record made by fetchFeed has Content whenever the item it was made
\* from has content or a description, and so has every record of the store,
\* during and after a refresh.
C25_ContentFallback ==
  \A a \in Fetched \cup Range(Store) :
     (ItemContent(a.FeedName, a.Title) # "" \/ a.Description # "") => a.Content # ""
C25_Witness ==
  /\ pc = "done" /\ nStarted > 0
  /\ \E a \in Range(Store) :
       /\ a.gen = nStarted /\ ItemContent(a.FeedName, a.Title) = ""
       /\ a.Description # "" /\ a.Content = a.Description
  /\ \E a \in Range(Store) :
       a.gen = nStarted /\ a.Description = "" /\ a.Content = ItemContent(a.FeedName, a.Title)


\* the call is in one of its two range loops; every task it launched is back
InFanIn == pc \in {"recvArticles", "recvErrors"}
AllReturned == InFanIn /\ \A i \in DOMAIN task : task[i] # "running"

\* C28: a fetch task that has its result or its error can always deliver it,
\* whatever the other tasks and the caller have done; RefreshFeeds leaves its
\* receive loops only when every task it launched has returned; and once all
\* of them have returned it leaves the loops.
C28_FanInNoDeadlock ==
  /\ [](\A i \in DOMAIN task : (Running /\ task[i] = "running") =>
          /\ ENABLED FetchFail(i)
          /\ \A n \in ItemCounts : ENABLED FetchOk(i, n))
  /\ []((Running /\ ~InFanIn) => \A i \in DOMAIN task : task[i] # "running")
  /\ (AllReturned ~> ~InFanIn)
C28_Witness ==
  /\ pc = "recvArticles" /\ chClosed = 0
  /\ Len(errorCh) = 2 /\ \A i \in DOMAIN task : task[i] # "running"


\* the fetchFeeds commands that are inside fm.RefreshFeeds
Refreshing == {c \in Commands : cmd[c] \in {"refresh", "assign", "marshal", "write"}}

\* C24 (as claimed): at no instant is more than one RefreshFeeds call in
\* progress: a refresh is started only when no earlier one is running.
C24_OneRefresh == Cardinality(Refreshing) <= 1


\* the response of the current session ended at the end of the body: the
\* producer has left its loop having sent no chunk with Done or Err
EofEnd ==
  /\ liveResponseCh # 0 /\ prod[liveResponseCh] \in {"ret", "closed"}
  /\ Terminals(produced[liveResponseCh]) = {}
\* the session is over for the caller: the channel is closed, no pull command
\* is left, and the last message was handled as the end of the answer
Finished ==
  /\ liveResponseCh # 0 /\ respClosed[liveResponseCh]
  /\ pulls = EmptyBag
  /\ statusMessage = "LLM answered" /\ errorMessage = <<>>

\* C31: when the response body ends with no line carrying done and no error,
\* the producer closes the channel, the pull command in flight gets a message
\* with done and no error from the closed channel, and Update ends the
\* session with it: nothing is left waiting.
C31_EofTerminates ==
  /\ [](\A p \in BagToSet(pulls) :
          (p.msg # <<>> /\ p.ch # 0 /\ Terminals(received[p.ch]) = {}
             /\ respClosed[p.ch] /\ respCh[p.ch] = <<>> /\ Len(received[p.ch]) = Len(produced[p.ch])
             /\ p.msg[1].content = <<>>)
          => (p.msg[1].done /\ p.msg[1].err = ""))
  /\ (EofEnd ~> Finished)
C31_Witness ==
  /\ EofEnd /\ Finished
  /\ Len(received[1]) = MaxChunks /\ askLLMResult = Contents(1)


OnDisk == Unmarshal(cacheFile.data)

\* C33 (as claimed): whenever no RefreshFeeds call is in progress and the last
\* save wrote its data, the image in the cache file is the image of the
\* records in the store, also when the UI has started overlapping refreshes.
C33_CacheIsStore ==
  (Refreshing = {} /\ writeOk) =>
     (cacheFile.exists /\ OnDisk.ok /\ SameValues(OnDisk.val, Store))


\* one step of the SetSummary call
SetSummaryStep == SetSummaryStore \/ (\E ok \in BOOLEAN : SetSummaryMkdir(ok)) \/ SetSummaryReturn

\* C34 (as claimed): a SetSummary call always has a next step until it has
\* returned and released fm.mu, so it blocks no later GetArticles, GetSummary
\* or RefreshFeeds; once it has returned, the map holds the summary it was
\* called with.
C34_SetSummaryReturns ==
  /\ sumPc # "idle" => ENABLED SetSummaryStep
  /\ (sumPc = "idle" /\ sumArg # <<>>) =>
        /\ ~mu.writer
        /\ sumArg[1].name \in DOMAIN Summaries
        /\ Summaries[sumArg[1].name] = FeedSummary(sumArg[1].name, sumArg[1].n)


\* no configured source has a locator
NoLocator == Feeds # <<>> /\ \A i \in DOMAIN Feeds : Feeds[i].URL = ""

\* C35: when no configured source has a locator, RefreshFeeds launches no
\* fetch task and returns nil with the store empty, whatever it held before,
\* having entered saveCache; a save that wrote its data left the image of the
\* empty store in the cache file.
C35_NoSourceEmptiesStore ==
  /\ (Running /\ NoLocator) => (\A i \in DOMAIN task : task[i] = "skip")
  /\ (Returned0 /\ NoLocator) =>
        /\ ret = <<>> /\ sendOrder = <<>> /\ failOrder = <<>>
        /\ Articles = NilArr /\ Store = <<>>
        /\ saved
        /\ writeOk => (cacheFile.exists /\ Unmarshal(cacheFile.data).ok
                         /\ Unmarshal(cacheFile.data).val = <<>>)
C35_Witness ==
  /\ Returned0 /\ NoLocator /\ before # <<>> /\ Store = <<>>
  /\ writeOk /\ cacheFile.data = Marshal(NilArr, <<>>)


\* C36 (as claimed): every selected index is an index into the articles list
\* as it is now, so building the multi-select prompt never indexes the list
\* out of range.
C36_SelectionInRange ==
  /\ \A idx \in selectedArticleIndexes : idx \in 0..(articlesItems - 1)
  /\ ~panicked

\* the cursor of the configuration view is an index of its list
CursorInRange == cursor \in 0..(Len(cvFeeds) - 1)

\* C37 (as claimed): whenever the configuration view's list has entries the
\* cursor is an index of it, whatever keys and UpdateFeeds calls came before,
\* and so editing and saving never index the list out of range.
C37_CursorInRange ==
  /\ cvFeeds # <<>> => CursorInRange
  /\ ~(currentView = "config" /\ panicked)

====
